---- MODULE Spec2Model ----
(***************************************************************************)
(* Resilience layer of the Sorting Hat file organizer:                     *)
(*   - PerformanceOptimizer: the batching operation queue                  *)
(*     (src/.history/start_sorting_hat_20250301001720.bat, lines 103-303)  *)
(*   - ApiService: fetchWithRetry with the on-disk cache fallback          *)
(*     (src/.history/service_20250301134215.js, lines 663-834)             *)
(*   - ErrorRecovery: withRetry and the failure-threshold recovery         *)
(*     (src/permission_fix.bat, lines 61-301)                              *)
(*   - Watchdog: health checks and restarts of the services                *)
(*     (src/.history/watchdog_20250301135358.js)                           *)
(*   - SystemProtection: the memory checks, the backups of the critical    *)
(*     program files and their integrity checks                            *)
(*     (src/.history/system_protection_20250301135358.js)                  *)
(*   - NetworkMonitor: the connectivity checks and their events            *)
(*     (src/network_monitor.js)                                            *)
(* Each component has its own specification (SpecQueue, SpecFetch,         *)
(* SpecRecovery, SpecWatchdog, SpecMemory and SpecIntegrity for the two    *)
(* guards of SystemProtection, SpecMonitor); the variables of the other    *)
(* components stay at their initial value. SpecRestarts interleaves the    *)
(* three restart paths of one service.                                     *)
(***************************************************************************)
EXTENDS Integers, Sequences, FiniteSets, TLC

VARIABLES
  \* ---- PerformanceOptimizer ----
  maxConcurrentOperations, \* this.config.maxConcurrentOperations
  batchSize,               \* this.config.batchSize
  now,                     \* Date.now(), a clock that never runs backwards
  submitted,               \* number of scheduleOperation calls made so far
  queue,                   \* this.queue: sequence of queued items
  isProcessing,            \* this.isProcessing
  activeOperations,        \* this.activeOperations
  loopPc,                  \* processQueue: "idle" or "awaiting" Promise.allSettled
  batch,                   \* the local batch of processQueue (sorted), <<>> outside the loop
  batchNo,                 \* number of batches formed so far
  worker,                  \* per item: position of its async batch.map callback
  future,                  \* per item: the promise scheduleOperation returned
  settleCount,             \* per item: number of resolve/reject calls made on it
  invoked,                 \* per item: number of calls of item.operation
  operationsCompleted,     \* this.metrics.operationsCompleted
  operationsFailed,        \* this.metrics.operationsFailed
  dispatched,              \* ids in the order their callbacks were started
  immediates,              \* pending setImmediate(() => this.processQueue())
  opResult,                \* per item: what the promise of item.operation settled with
  \* ---- ApiService ----
  cache,                   \* the cache directory: per cache file its parsed content
  call,                    \* the fetchWithRetry call that is followed
  clock,                   \* new Date(): advances with every cache write
  lastSuccess,             \* per endpoint: payload of the last successful fetch
  returned,                \* what the followed call returned or threw in the last step
  \* ---- ErrorRecovery ----
  maxRetries,              \* this.config.maxRetries
  failureThreshold,        \* this.config.failureThreshold
  failureCount,            \* this.failureCount, per name (0 where undefined)
  recoveries,              \* per name: number of initiateRecovery calls so far
  restartCommands,         \* per name: number of restart scripts handed to exec
  retry,                   \* the withRetry call that is followed
  wallClock,               \* the time of day, in periods shorter than a cooldown
  lastRecoveryAt,          \* per name: wallClock of its last initiateRecovery
  retryReturned,           \* what the followed withRetry call returned or threw in the last step
  \* ---- Watchdog ----
  importance,              \* serviceConfig.importance of the service that is followed
  alive,                   \* the watchdog process runs and its interval timer fires
  failures,                \* this.failures[serviceName]
  sinceLastAttempt,        \* Date.now() - this.lastRecoveryAttempt[serviceName], in ms, capped at RECOVERY_TIME
  recentRestarts,          \* ages in ms of the restart attempts younger than RECOVERY_TIME, newest first
  commands,                \* child processes handed to exec (taskkill, start) that have not run yet
  procs,                   \* the live processes matching the window title
  lastCheck,               \* what the last step did, when it was a health check or a failure handling
  \* ---- SystemProtection ----
  exposeGc,                \* global.gc is defined (node runs with --expose-gc)
  initialized,             \* initialize() has run: first backup taken, timers started
  files,                   \* the program directory: per critical file its content
  criticalFileHashes,      \* this.criticalFileHashes, per critical file
  backups,                 \* the backup-* folders of the backup directory
  backupClock,             \* the time stamp of the newest backup folder made so far
  changes,                 \* number of writes other programs made to the critical files
  heldOpen,                \* the critical files another program holds open: a copy onto them throws
  goodContent,             \* per file changed since the last integrity check: its content in the last backup before the change
  lastBackup,              \* what the last step did, when it ran backupCriticalFiles
  lastMemoryCheck,         \* what the last step did, when it was a checkMemoryUsage call
  lastIntegrityCheck,      \* what the last step did, when it was a checkFileIntegrity call
  \* ---- NetworkMonitor ----
  isOnline,                \* this.isOnline
  intervalId,              \* this.intervalId: Null, or the armed interval timer
  lastOnlineTime,          \* this.lastOnlineTime: Null, or the time of the last check that found the network
  pending,                 \* per slot: a checkConnectivity call awaiting isConnected, with its local wasOnline
  monitorNow,              \* new Date(), in firings of the interval timer
  emitted,                 \* the events the last step emitted, in order
  lastEmitted              \* the last 'online' / 'offline' event emitted so far, "none" before the first

queueVars == <<maxConcurrentOperations, batchSize, now, submitted, queue,
               isProcessing, activeOperations, loopPc, batch, batchNo, worker,
               future, settleCount, invoked, operationsCompleted,
               operationsFailed, dispatched, immediates, opResult>>

fetchVars == <<cache, call, clock, lastSuccess, returned>>

recoveryVars == <<maxRetries, failureThreshold, failureCount, recoveries,
                  restartCommands, retry, wallClock, lastRecoveryAt,
                  retryReturned>>

watchdogVars == <<importance, alive, failures, sinceLastAttempt,
                  recentRestarts, commands, procs, lastCheck>>

protectionVars == <<exposeGc, initialized, files, criticalFileHashes, backups,
                    backupClock, changes, heldOpen, goodContent, lastBackup,
                    lastMemoryCheck, lastIntegrityCheck>>

monitorVars == <<isOnline, intervalId, lastOnlineTime, pending, monitorNow,
                 emitted, lastEmitted>>

\* What each component leaves alone
exceptQueue == <<fetchVars, recoveryVars, watchdogVars, protectionVars,
                 monitorVars>>
exceptFetch == <<queueVars, recoveryVars, watchdogVars, protectionVars,
                 monitorVars>>
exceptRecovery == <<queueVars, fetchVars, watchdogVars, protectionVars,
                    monitorVars>>
exceptWatchdog == <<queueVars, fetchVars, recoveryVars, protectionVars,
                    monitorVars>>
exceptProtection == <<queueVars, fetchVars, recoveryVars, watchdogVars,
                      monitorVars>>
exceptMonitor == <<queueVars, fetchVars, recoveryVars, watchdogVars,
                   protectionVars>>

vars == <<queueVars, fetchVars, recoveryVars, watchdogVars, protectionVars,
          monitorVars>>

-----------------------------------------------------------------------------
\* Bounds of the model
MaxOps   == 3      \* scheduleOperation calls per behaviour
MaxK     == 1      \* maxConcurrentOperations ranges over 0..MaxK
MaxBatch == 2      \* batchSize ranges over 1..MaxBatch
MaxPrio  == 1      \* metadata.priority ranges over undefined, 0..MaxPrio
MaxTime  == 1      \* Date.now() ranges over 0..MaxTime

Min(a, b) == IF a < b THEN a ELSE b

Ids == 1..MaxOps

\* JavaScript's undefined, for a metadata object without a priority
Undefined == 0 - 1

Priorities == {Undefined} \cup (0..MaxPrio)

\* What the promise of an operation settles with: a result, or an Error it
\* threw or rejected with
ErrorValues == {"E1"}
Outcomes == {[ok |-> TRUE, value |-> "result"]}
              \cup {[ok |-> FALSE, value |-> e] : e \in ErrorValues}

NoOutcome == [ok |-> FALSE, value |-> "none"]

Pending == [state |-> "pending", value |-> "none"]

-----------------------------------------------------------------------------
\* (x || 0) of the sort comparator
OrZero(p) == IF p = Undefined \/ p = 0 THEN 0 ELSE p

\* The comparator with the sign of the priority difference turned round
CompareLowPriorityFirst(a, b) ==
  IF a.metadata.priority # b.metadata.priority
    THEN OrZero(a.metadata.priority) - OrZero(b.metadata.priority)
    ELSE a.addedTime - b.addedTime

\* The comparator handed to batch.sort (lines 172-180)
Compare(a, b) ==
  IF a.metadata.priority # b.metadata.priority
    THEN OrZero(b.metadata.priority) - OrZero(a.metadata.priority)
    ELSE a.addedTime - b.addedTime

\* Array.prototype.sort is stable: x goes behind every element it does not
\* strictly precede.
RECURSIVE InsertSorted(_, _)
InsertSorted(s, x) ==
  IF s = <<>> THEN <<x>>
  ELSE IF Compare(x, s[Len(s)]) < 0
         THEN Append(InsertSorted(SubSeq(s, 1, Len(s) - 1), x), s[Len(s)])
         ELSE Append(s, x)

RECURSIVE SortBatch(_)
SortBatch(s) ==
  IF s = <<>> THEN <<>>
  ELSE InsertSorted(SortBatch(SubSeq(s, 1, Len(s) - 1)), s[Len(s)])

\* A batch taken from the tail of the queue instead of its head
SpliceNewest(q) == SubSeq(q, Len(q) - Min(Len(q), batchSize) + 1, Len(q))

\* queue.splice(0, Math.min(queue.length, batchSize)): the removed prefix
SpliceBatch(q) == SubSeq(q, 1, Min(Len(q), batchSize))

\* ... and what stays in the queue
SpliceRest(q) == SubSeq(q, Min(Len(q), batchSize) + 1, Len(q))

SeqIds(s) == {s[j].id : j \in 1..Len(s)}

\* The while condition of processQueue (line 166)
LoopCondition(q) ==
  Len(q) > 0 /\ activeOperations < maxConcurrentOperations

\* A finally block that leaves the flag set
LoopExitKeepsFlag(q, imm) ==
  /\ queue' = q
  /\ isProcessing' = isProcessing
  /\ loopPc' = "idle"
  /\ immediates' = IF Len(q) > 0 THEN imm + 1 ELSE imm
  /\ batch' = <<>>
  /\ UNCHANGED <<batchNo, activeOperations, worker, dispatched>>

\* The finally block of processQueue (lines 229-236): the flag is cleared and
\* the loop is re-armed through setImmediate when items remain.
LoopExit(q, imm) ==
  /\ queue' = q
  /\ isProcessing' = FALSE
  /\ loopPc' = "idle"
  /\ immediates' = IF Len(q) > 0 THEN imm + 1 ELSE imm
  /\ batch' = <<>>
  /\ UNCHANGED <<batchNo, activeOperations, worker, dispatched>>

\* One iteration of the while loop up to its await (lines 167-220): a batch is
\* spliced off and sorted, and every callback of batch.map is started. Each
\* callback runs synchronously up to its first await, so activeOperations is
\* raised once per item of the batch before the loop awaits Promise.allSettled.
DispatchBatch(q, imm) ==
  LET b == SortBatch(SpliceBatch(q)) IN
  /\ queue' = SpliceRest(q)
  /\ batch' = b
  /\ batchNo' = batchNo + 1
  /\ activeOperations' = activeOperations + Len(b)
  /\ worker' = [i \in Ids |-> IF i \in SeqIds(b) THEN "fs" ELSE worker[i]]
  /\ dispatched' = dispatched \o [j \in 1..Len(b) |-> b[j].id]
  /\ isProcessing' = TRUE
  /\ loopPc' = "awaiting"
  /\ immediates' = imm

\* processQueue from the loop head to its next suspension point or its end,
\* with q the queue and imm the pending immediates when the head is reached
LoopHead(q, imm) ==
  IF LoopCondition(q) THEN DispatchBatch(q, imm) ELSE LoopExit(q, imm)

\* processQueue called from outside the loop (lines 161-163)
ProcessQueueUnguarded(q, imm) == LoopHead(q, imm)

ProcessQueue(q, imm) ==
  IF isProcessing
    THEN /\ queue' = q
         /\ immediates' = imm
         /\ UNCHANGED <<batch, batchNo, activeOperations, worker, dispatched,
                        isProcessing, loopPc>>
    ELSE LoopHead(q, imm)

BatchSettledAny == \E j \in 1..Len(batch) : worker[batch[j].id] = "done"

BatchSettled == \A j \in 1..Len(batch) : worker[batch[j].id] = "done"

\* scheduleOperation(operation, filePath, metadata) (lines 140-156), called
\* with priority p in its metadata when Date.now() reads t
ScheduleOperationDeferred(p, t) ==
  /\ submitted < MaxOps
  /\ now' = t
  /\ submitted' = submitted + 1
  /\ queue' = Append(queue, [id |-> submitted + 1,
                             metadata |-> [priority |-> p], addedTime |-> t])
  /\ immediates' = immediates + 1
  /\ UNCHANGED <<maxConcurrentOperations, batchSize, future, settleCount,
                 invoked, operationsCompleted, operationsFailed, opResult,
                 batch, batchNo, activeOperations, worker, dispatched,
                 isProcessing, loopPc>>

ScheduleOperation(p, t) ==
  /\ submitted < MaxOps
  /\ now' = t
  /\ LET id == submitted + 1
         item == [id |-> id, metadata |-> [priority |-> p], addedTime |-> t]
     IN /\ submitted' = id
        /\ ProcessQueue(Append(queue, item), immediates)
  /\ UNCHANGED <<maxConcurrentOperations, batchSize, future, settleCount,
                 invoked, operationsCompleted, operationsFailed, opResult>>

\* The fsAccess/fsStat probe of one item ends, with or without stats, and
\* item.operation is called (lines 188-199)
InvokeOperation(i) ==
  /\ worker[i] = "fs"
  /\ worker' = [worker EXCEPT ![i] = "op"]
  /\ invoked' = [invoked EXCEPT ![i] = @ + 1]
  /\ UNCHANGED <<maxConcurrentOperations, batchSize, now, submitted, queue,
                 isProcessing, activeOperations, loopPc, batch, batchNo,
                 future, settleCount, operationsCompleted, operationsFailed,
                 dispatched, immediates, opResult>>

\* The promise item.operation returned settles with outcome o; the callback
\* awaiting it (line 199) goes on in a later microtask.
OperationSettles(i, o) ==
  /\ worker[i] = "op"
  /\ worker' = [worker EXCEPT ![i] = "settled"]
  /\ opResult' = [opResult EXCEPT ![i] = o]
  /\ UNCHANGED <<maxConcurrentOperations, batchSize, now, submitted, queue,
                 isProcessing, activeOperations, loopPc, batch, batchNo,
                 future, settleCount, invoked, operationsCompleted,
                 operationsFailed, dispatched, immediates>>

\* resolve or reject of a promise: only the first call settles it
Settle(f, st, v) == IF f = Pending THEN [state |-> st, value |-> v] ELSE f

\* The try branch after the operation resolved (lines 201-208)
OnResolvedUncounted(i, o) ==
  /\ future' = [future EXCEPT ![i] = Settle(@, "resolved", o.value)]
  /\ settleCount' = [settleCount EXCEPT ![i] = @ + 1]
  /\ UNCHANGED <<operationsCompleted, operationsFailed>>

OnResolved(i, o) ==
  /\ operationsCompleted' = operationsCompleted + 1
  /\ future' = [future EXCEPT ![i] = Settle(@, "resolved", o.value)]
  /\ settleCount' = [settleCount EXCEPT ![i] = @ + 1]
  /\ UNCHANGED operationsFailed

\* The rejection of one failed operation wrongly delivered to the whole batch
OnRejectedWholeBatch(i, o) ==
  /\ operationsFailed' = operationsFailed + 1
  /\ future' = [j \in Ids |-> IF j \in SeqIds(batch)
                                THEN Settle(future[j], "rejected", o.value)
                                ELSE future[j]]
  /\ settleCount' = [j \in Ids |-> IF j \in SeqIds(batch)
                                     THEN settleCount[j] + 1 ELSE settleCount[j]]
  /\ UNCHANGED operationsCompleted

\* The catch branch after the operation threw or rejected (lines 209-213)
OnRejected(i, o) ==
  /\ operationsFailed' = operationsFailed + 1
  /\ future' = [future EXCEPT ![i] = Settle(@, "rejected", o.value)]
  /\ settleCount' = [settleCount EXCEPT ![i] = @ + 1]
  /\ UNCHANGED operationsCompleted

\* The finally branch of the callback (lines 214-216)
OnFinallyRetries(i) ==
  IF opResult[i].ok
    THEN /\ activeOperations' = activeOperations - 1
         /\ worker' = [worker EXCEPT ![i] = "done"]
    ELSE /\ activeOperations' = activeOperations
         /\ worker' = [worker EXCEPT ![i] = "fs"]

OnFinally(i) ==
  /\ activeOperations' = activeOperations - 1
  /\ worker' = [worker EXCEPT ![i] = "done"]

\* The callback of item i goes on after its await and runs to its end
\* (lines 199-216)
FinishOperation(i) ==
  /\ worker[i] = "settled"
  /\ IF opResult[i].ok THEN OnResolved(i, opResult[i])
                       ELSE OnRejected(i, opResult[i])
  /\ OnFinally(i)
  /\ UNCHANGED <<maxConcurrentOperations, batchSize, now, submitted, queue,
                 isProcessing, loopPc, batch, batchNo, invoked, dispatched,
                 immediates, opResult>>

\* Promise.allSettled(promises) has resolved and processQueue goes on at the
\* loop head (lines 220-236)
ResumeLoop ==
  /\ loopPc = "awaiting"
  /\ BatchSettled
  /\ LoopHead(queue, immediates)
  /\ UNCHANGED <<maxConcurrentOperations, batchSize, now, submitted, future,
                 settleCount, invoked, operationsCompleted, operationsFailed,
                 opResult>>

\* A callback armed by setImmediate runs processQueue (line 234)
RunImmediate ==
  /\ immediates > 0
  /\ ProcessQueue(queue, immediates - 1)
  /\ UNCHANGED <<maxConcurrentOperations, batchSize, now, submitted, future,
                 settleCount, invoked, operationsCompleted, operationsFailed,
                 opResult>>

\* The constructor (lines 104-131), with the configuration it is given
InitQueue ==
  /\ maxConcurrentOperations \in 0..MaxK
  /\ batchSize \in 1..MaxBatch
  /\ now = 0
  /\ submitted = 0
  /\ queue = <<>>
  /\ isProcessing = FALSE
  /\ activeOperations = 0
  /\ loopPc = "idle"
  /\ batch = <<>>
  /\ batchNo = 0
  /\ worker = [i \in Ids |-> "none"]
  /\ future = [i \in Ids |-> Pending]
  /\ settleCount = [i \in Ids |-> 0]
  /\ invoked = [i \in Ids |-> 0]
  /\ operationsCompleted = 0
  /\ operationsFailed = 0
  /\ dispatched = <<>>
  /\ immediates = 0
  /\ opResult = [i \in Ids |-> NoOutcome]

NextQueue ==
  \/ \E p \in Priorities : \E t \in now..MaxTime :
       ScheduleOperation(p, t) /\ UNCHANGED exceptQueue
  \/ \E i \in Ids : InvokeOperation(i) /\ UNCHANGED exceptQueue
  \/ \E i \in Ids : \E o \in Outcomes :
       OperationSettles(i, o) /\ UNCHANGED exceptQueue
  \/ \E i \in Ids : FinishOperation(i) /\ UNCHANGED exceptQueue
  \/ ResumeLoop /\ UNCHANGED exceptQueue
  \/ RunImmediate /\ UNCHANGED exceptQueue


\* What the queue does by itself, once operations have been submitted
QueueProgress ==
  \/ \E i \in Ids : InvokeOperation(i)
  \/ \E i \in Ids : \E o \in Outcomes : OperationSettles(i, o)
  \/ \E i \in Ids : FinishOperation(i)
  \/ ResumeLoop
  \/ RunImmediate

\* The event loop runs the callbacks that are ready, the file system answers
\* every probe, and every operation's own promise settles.
FairQueue == WF_vars(QueueProgress /\ UNCHANGED exceptQueue)

-----------------------------------------------------------------------------
\* ApiService (src/.history/service_20250301134215.js)
\*
\* One fetchWithRetry call is followed step by step. Calls overlapping with it
\* share nothing with it but the cache directory, which a call writes only
\* when its request succeeds: they appear as OverlappingSuccess.

MaxWrites == 3     \* successful responses per behaviour

\* this.retryDelays (line 667)
retryDelays == <<1000, 2000, 5000, 10000, 30000>>

\* Endpoint keys, as strings of characters
Endpoints == { <<"a", "/", "b">>, <<"a", "_", "b">>, <<"c">> }

\* response.data of a successful response; 0 is a falsy JSON value
Payloads == {0, 1, 2}

\* if (x) of JavaScript, for the values the cache can hand back: null (no
\* entry) and the number 0 are falsy
Null == 0 - 2
Truthy(v) == v # Null /\ v # 0

\* What axios rejects with: no response at all (network error, timeout), or
\* a response with a status outside 2xx
NetworkError == [hasResponse |-> FALSE, status |-> 0]
HttpError(st) == [hasResponse |-> TRUE, status |-> st]
Errors == {NetworkError, HttpError(404), HttpError(500)}
NoError == [hasResponse |-> FALSE, status |-> 0 - 1]

\* A test that takes every error response for a server error
isRetryableAnyStatus(error) ==
  ~error.hasResponse \/ (error.hasResponse /\ error.status >= 400)

\* isRetryableError(error) (lines 734-737)
isRetryableError(error) ==
  ~error.hasResponse \/ (error.hasResponse /\ error.status >= 500)

\* getCachePath(endpoint) (lines 739-741): every "/" becomes "_"
getCachePath(endpoint) ==
  [i \in DOMAIN endpoint |-> IF endpoint[i] = "/" THEN "_" ELSE endpoint[i]]

Files == {getCachePath(e) : e \in Endpoints}

NoEntry == [exists |-> FALSE, data |-> Null, timestamp |-> 0]

\* cacheResponse(endpoint, data) (lines 743-753), writing at time t
cacheResponse(c, endpoint, data, t) ==
  [c EXCEPT ![getCachePath(endpoint)] =
     [exists |-> TRUE, data |-> data, timestamp |-> t]]

\* getFromCache(endpoint) (lines 755-766)
getFromCache(endpoint) ==
  IF cache[getCachePath(endpoint)].exists
    THEN cache[getCachePath(endpoint)].data
    ELSE Null

\* getCacheTimestamp(endpoint) (lines 768-779)
getCacheTimestamp(endpoint) ==
  IF cache[getCachePath(endpoint)].exists
    THEN cache[getCachePath(endpoint)].timestamp
    ELSE Null

IdleCall == [pc |-> "idle", endpoint |-> <<>>, cacheFirst |-> FALSE,
             retryCount |-> 0, attempts |-> 0, n4xx |-> 0, waited |-> <<>>]

NoReturn == [kind |-> "none", endpoint |-> <<>>, cacheFirst |-> FALSE,
             data |-> Null, fromCache |-> FALSE, timestamp |-> Null,
             error |-> NoError, attempts |-> 0, n4xx |-> 0, waited |-> <<>>]

\* What the followed call, whose record is c, hands to its caller
Result(c, kind, data, fromCache, timestamp, error) ==
  [kind |-> kind, endpoint |-> c.endpoint, cacheFirst |-> c.cacheFirst,
   data |-> data, fromCache |-> fromCache, timestamp |-> timestamp,
   error |-> error, attempts |-> c.attempts, n4xx |-> c.n4xx,
   waited |-> c.waited]

\* return response.data (line 706)
DataResult(c, data) == Result(c, "data", data, FALSE, Null, NoError)

\* The object built from the cache (lines 683-687 and 723-727)
CachedResult(c, kind) ==
  Result(c, kind, getFromCache(c.endpoint), TRUE,
         getCacheTimestamp(c.endpoint), NoError)

\* throw error (line 730)
ThrownResult(c, error) == Result(c, "thrown", Null, FALSE, Null, error)

\* The followed call ends
Return(result) ==
  /\ call' = IdleCall
  /\ returned' = result

\* Whether the cache-first branch returns (lines 676-689)
UsesCacheFirst(c) ==
  c.cacheFirst /\ Truthy(getFromCache(c.endpoint))

\* fetchWithRetry from its entry to the await of axios (lines 675-701), with c
\* the record of the call: either the cached data are returned at once or a
\* request goes out
Enter(c) ==
  /\ IF UsesCacheFirst(c)
       THEN Return(CachedResult(c, "cacheFirst"))
       ELSE /\ call' = [c EXCEPT !.pc = "inflight", !.attempts = @ + 1]
            /\ returned' = NoReturn
  /\ UNCHANGED <<cache, clock, lastSuccess>>

\* fetchWithRetry(endpoint, options) is called, retryCount at its default
Fetch(endpoint, cacheFirst) ==
  /\ call.pc = "idle"
  /\ Enter([IdleCall EXCEPT !.endpoint = endpoint, !.cacheFirst = cacheFirst])

\* axios resolves with data, and the response is cached (lines 703-706)
Succeed(data) ==
  /\ call.pc = "inflight"
  /\ clock < MaxWrites
  /\ clock' = clock + 1
  /\ cache' = cacheResponse(cache, call.endpoint, data, clock + 1)
  /\ lastSuccess' = [lastSuccess EXCEPT ![call.endpoint] = data]
  /\ Return(DataResult(call, data))

\* The request of a call overlapping with the followed one, for endpoint e,
\* resolves with data (lines 703-706)
OverlappingSuccess(e, data) ==
  /\ clock < MaxWrites
  /\ clock' = clock + 1
  /\ cache' = cacheResponse(cache, e, data, clock + 1)
  /\ lastSuccess' = [lastSuccess EXCEPT ![e] = data]
  /\ returned' = NoReturn
  /\ UNCHANGED call

\* A retry condition that stops one entry short of the delay table
ShouldRetryOneShort(c, error) ==
  c.retryCount < Len(retryDelays) - 1 /\ isRetryableError(error)

\* clearCache() (lines 781-791): every cache file is removed; lastSuccess
\* follows the life of the cache directory
ClearCache ==
  /\ cache' = [f \in Files |-> NoEntry]
  /\ lastSuccess' = [e \in Endpoints |-> Null]
  /\ returned' = NoReturn
  /\ UNCHANGED <<call, clock>>

\* The condition under which the catch block retries (line 711)
ShouldRetry(c, error) ==
  c.retryCount < Len(retryDelays) /\ isRetryableError(error)

\* A catch block that consults the cache only for retryable errors
FallbackOnlyAfterRetries(c, error) ==
  IF isRetryableError(error) /\ Truthy(getFromCache(c.endpoint))
    THEN Return(CachedResult(c, "fallback"))
    ELSE Return(ThrownResult(c, error))

\* The end of the catch block (lines 719-730): cached data or the error
Fallback(c, error) ==
  IF Truthy(getFromCache(c.endpoint))
    THEN Return(CachedResult(c, "fallback"))
    ELSE Return(ThrownResult(c, error))

\* axios rejects with error (lines 707-731)
Fail(error) ==
  /\ call.pc = "inflight"
  /\ LET c == [call EXCEPT
                 !.n4xx = IF error.hasResponse /\ error.status < 500
                            THEN @ + 1 ELSE @]
     IN IF ShouldRetry(c, error)
          THEN /\ call' = [c EXCEPT !.pc = "backoff",
                             !.waited = Append(@, retryDelays[c.retryCount + 1])]
               /\ returned' = NoReturn
          ELSE Fallback(c, error)
  /\ UNCHANGED <<cache, clock, lastSuccess>>

\* The backoff timer fires and fetchWithRetry calls itself with retryCount + 1
\* (lines 715-716)
Retry ==
  /\ call.pc = "backoff"
  /\ Enter([call EXCEPT !.retryCount = @ + 1])

\* The constructor (lines 664-673), on an empty cache directory
InitFetch ==
  /\ cache = [f \in Files |-> NoEntry]
  /\ call = IdleCall
  /\ clock = 0
  /\ lastSuccess = [e \in Endpoints |-> Null]
  /\ returned = NoReturn

NextFetch ==
  \/ \E e \in Endpoints : \E cf \in BOOLEAN :
       Fetch(e, cf) /\ UNCHANGED exceptFetch
  \/ \E d \in Payloads : Succeed(d) /\ UNCHANGED exceptFetch
  \/ \E e \in Endpoints : \E d \in Payloads :
       OverlappingSuccess(e, d) /\ UNCHANGED exceptFetch
  \/ \E err \in Errors : Fail(err) /\ UNCHANGED exceptFetch
  \/ Retry /\ UNCHANGED exceptFetch
  \/ ClearCache /\ UNCHANGED exceptFetch

-----------------------------------------------------------------------------
\* ErrorRecovery (src/permission_fix.bat, lines 61-301)
\*
\* One withRetry call is followed step by step. The calls overlapping with it
\* share nothing with it but this.failureCount, which they change through
\* recordFailure: they appear as RecordFailure.

MaxRetriesCfg == 5   \* config.maxRetries ranges over 1..MaxRetriesCfg
MaxThreshold  == 2   \* config.failureThreshold ranges over 1..MaxThreshold
MaxCount      == 5   \* failures recorded for a name since its last recovery
MaxRecoveries == 2   \* initiateRecovery calls per name
MaxClock      == 1   \* wallClock ranges over 0..MaxClock

\* config.retryDelays (line 65), in ms
recoveryRetryDelays == <<1000, 5000, 15000>>

\* config.criticalServices (line 67)
criticalServices == {"fileOrganizer", "apiServer"}

\* The operation names in use: a critical one and one outside the set
Names == {"apiServer", "thumbnails"}

\* this.config.retryDelays[attempt] || 1000 (line 111), attempt counted from 0
DelayAfter(attempt) ==
  IF attempt + 1 \in DOMAIN recoveryRetryDelays
       /\ recoveryRetryDelays[attempt + 1] # 0
    THEN recoveryRetryDelays[attempt + 1]
    ELSE 1000

IdleRetry == [pc |-> "idle", name |-> "", attempt |-> 0, invocations |-> 0,
              failed |-> 0, waited |-> <<>>]

NoRetryReturn == [kind |-> "none", name |-> "", attempt |-> 0,
                  invocations |-> 0, failed |-> 0, waited |-> <<>>]

\* What the followed withRetry call, whose record is r, hands to its caller:
\* the result of the operation (line 101) or the error of line 119
RetryResult(r, kind) ==
  [kind |-> kind, name |-> r.name, attempt |-> r.attempt,
   invocations |-> r.invocations, failed |-> r.failed, waited |-> r.waited]

\* initiateRecovery(serviceName) (lines 222-260), entered with the counts of
\* recordFailure: the count is reset first (resetFailures, lines 147-149), then
\* the restart script is handed to exec when fs.existsSync finds it
initiateRecovery(counts, serviceName, scriptExists) ==
  /\ failureCount' = [counts EXCEPT ![serviceName] = 0]
  /\ recoveries' = [recoveries EXCEPT ![serviceName] = @ + 1]
  /\ lastRecoveryAt' = [lastRecoveryAt EXCEPT ![serviceName] = wallClock]
  /\ restartCommands' =
       IF scriptExists
         THEN [restartCommands EXCEPT ![serviceName] = @ + 1]
         ELSE restartCommands

\* A recovery test that leaves out the critical set
NeedsRecoveryAnyName(count, serviceName) ==
  count >= failureThreshold

\* The test of recordFailure (lines 134-138)
NeedsRecovery(count, serviceName) ==
  count >= failureThreshold /\ serviceName \in criticalServices

\* recordFailure(serviceName) (lines 126-141)
recordFailure(serviceName, scriptExists) ==
  LET counts == [failureCount EXCEPT ![serviceName] = @ + 1]
  IN IF NeedsRecovery(counts[serviceName], serviceName)
       THEN initiateRecovery(counts, serviceName, scriptExists)
       ELSE /\ failureCount' = counts
            /\ UNCHANGED <<recoveries, lastRecoveryAt, restartCommands>>

\* Whether one more failure of name fits the bounds of the model
MayFail(name) ==
  /\ failureCount[name] < MaxCount
  /\ recoveries[name] < MaxRecoveries

\* recordFailure called by an overlapping withRetry call
RecordFailure(name, scriptExists) ==
  /\ MayFail(name)
  /\ recordFailure(name, scriptExists)
  /\ retryReturned' = NoRetryReturn
  /\ UNCHANGED <<maxRetries, failureThreshold, retry, wallClock>>

\* A loop that gives up one attempt early
LoopContinuesOneShort(attempt) == attempt < maxRetries - 1

\* The condition of the for loop (line 93)
LoopContinues(attempt) == attempt < maxRetries

\* withRetry(operation, operationName) is called (lines 90-95): the loop starts
\* with attempt 0 and the operation is invoked
WithRetry(name) ==
  /\ retry.pc = "idle"
  /\ LoopContinues(0)
  /\ retry' = [IdleRetry EXCEPT !.pc = "operation", !.name = name,
                                !.invocations = 1]
  /\ retryReturned' = NoRetryReturn
  /\ UNCHANGED <<maxRetries, failureThreshold, failureCount, recoveries,
                 restartCommands, wallClock, lastRecoveryAt>>

\* The operation resolves (lines 95-104): its result is returned
OperationSucceedsResets ==
  /\ retry.pc = "operation"
  /\ retry' = IdleRetry
  /\ retryReturned' = RetryResult(retry, "result")
  /\ failureCount' = [failureCount EXCEPT ![retry.name] = 0]
  /\ UNCHANGED <<maxRetries, failureThreshold, recoveries,
                 restartCommands, wallClock, lastRecoveryAt>>

OperationSucceeds ==
  /\ retry.pc = "operation"
  /\ retry' = IdleRetry
  /\ retryReturned' = RetryResult(retry, "result")
  /\ UNCHANGED <<maxRetries, failureThreshold, failureCount, recoveries,
                 restartCommands, wallClock, lastRecoveryAt>>

\* Whether a delay follows the failed attempt (line 109)
WaitsAfter(attempt) == attempt < maxRetries - 1

\* The operation rejects (lines 102-118): the failure is recorded, then
\* either the delay starts or the loop ends and the error of line 119 is thrown
OperationFails(scriptExists) ==
  /\ retry.pc = "operation"
  /\ MayFail(retry.name)
  /\ recordFailure(retry.name, scriptExists)
  /\ LET r == [retry EXCEPT !.failed = @ + 1]
     IN IF WaitsAfter(r.attempt)
          THEN /\ retry' = [r EXCEPT !.pc = "delay",
                              !.waited = Append(@, DelayAfter(r.attempt))]
               /\ retryReturned' = NoRetryReturn
          ELSE IF LoopContinues(r.attempt + 1)
            THEN /\ retry' = [r EXCEPT !.attempt = @ + 1,
                                !.invocations = @ + 1]
                 /\ retryReturned' = NoRetryReturn
            ELSE /\ retry' = IdleRetry
                 /\ retryReturned' = RetryResult(r, "thrown")
  /\ UNCHANGED <<maxRetries, failureThreshold, wallClock>>

\* The delay is over (line 112): attempt++ and, the loop condition holding,
\* the operation is invoked again
DelayElapses ==
  /\ retry.pc = "delay"
  /\ IF LoopContinues(retry.attempt + 1)
       THEN /\ retry' = [retry EXCEPT !.pc = "operation", !.attempt = @ + 1,
                           !.invocations = @ + 1]
            /\ retryReturned' = NoRetryReturn
       ELSE /\ retry' = IdleRetry
            /\ retryReturned' = RetryResult(retry, "thrown")
  /\ UNCHANGED <<maxRetries, failureThreshold, failureCount, recoveries,
                 restartCommands, wallClock, lastRecoveryAt>>

\* Time passes: a new period of the wall clock begins
TimePasses ==
  /\ wallClock < MaxClock
  /\ wallClock' = wallClock + 1
  /\ retryReturned' = NoRetryReturn
  /\ UNCHANGED <<maxRetries, failureThreshold, failureCount, recoveries,
                 restartCommands, retry, lastRecoveryAt>>

Never == 0 - 1

\* The constructor (lines 62-81)
InitRecovery ==
  /\ maxRetries \in 1..MaxRetriesCfg
  /\ failureThreshold \in 1..MaxThreshold
  /\ failureCount = [n \in Names |-> 0]
  /\ recoveries = [n \in Names |-> 0]
  /\ restartCommands = [n \in Names |-> 0]
  /\ retry = IdleRetry
  /\ wallClock = 0
  /\ lastRecoveryAt = [n \in Names |-> Never]
  /\ retryReturned = NoRetryReturn

NextRecovery ==
  \/ \E n \in Names : WithRetry(n) /\ UNCHANGED exceptRecovery
  \/ OperationSucceeds /\ UNCHANGED exceptRecovery
  \/ \E x \in BOOLEAN : OperationFails(x) /\ UNCHANGED exceptRecovery
  \/ DelayElapses /\ UNCHANGED exceptRecovery
  \/ \E n \in Names : \E x \in BOOLEAN :
       RecordFailure(n, x) /\ UNCHANGED exceptRecovery
  \/ TimePasses /\ UNCHANGED exceptRecovery

-----------------------------------------------------------------------------
\* Watchdog (src/.history/watchdog_20250301135358.js)
\*
\* One service of config.servicesMap is followed: the services share nothing,
\* each has its own interval timer, failure count and lastRecoveryAttempt.
\* What a health check observes is an input: the outcome of tasklist / ps.

MaxIds == 1   \* restart attempts whose taskkill or start has still to run

\* The constants of lines 12-14, in ms
CHECK_INTERVAL == 30000
MAX_FAILURES == 5
RECOVERY_TIME == 300000

\* The time between two health checks of a service: the interval of
\* setInterval (line 59), or twice that when a firing comes late
Intervals == {CHECK_INTERVAL, 2 * CHECK_INTERVAL}

\* serviceConfig.importance: 'critical' (lines 25 and 31) or anything else
Importances == {"critical", "normal"}

AttemptIds == 1..MaxIds

\* The attempts that still have a command to run, and an id for the next one
PendingIds == {c[2] : c \in commands}
FreeIds == AttemptIds \ PendingIds
NextId == CHOOSE a \in FreeIds : \A b \in FreeIds : a <= b

NoCheck == [kind |-> "none", isRunning |-> FALSE, before |-> 0, age |-> 0,
            decision |-> "none", steps |-> <<>>, backupOk |-> FALSE]

\* this.systemProtection.backupCriticalFiles() (system_protection, lines
\* 77-108): the snapshot is taken, or the failure is caught and null returned;
\* either way the call returns
backupCriticalFiles(backupOk) ==
  IF backupOk THEN <<"backup">> ELSE <<"backupFailed">>

\* The backup of lines 130-133
BackupOf(imp, backupOk) ==
  IF imp = "critical" THEN backupCriticalFiles(backupOk) ELSE <<>>

\* A restart whose start command is issued before the backup and the taskkill
RestartStepsStartFirst(imp, backupOk) ==
  <<"start">> \o BackupOf(imp, backupOk) \o <<"taskkill">>

\* What a restart attempt does, in order (lines 129-147): the backup, then
\* killZombieProcesses (lines 156-166), which hands taskkill / pkill to exec,
\* then the start command handed to exec
RestartSteps(imp, backupOk) ==
  BackupOf(imp, backupOk) \o <<"taskkill", "start">>

\* An inhibition that looks at the failure count only
InhibitedAtMax(count, age) == count >= MAX_FAILURES

\* The tests of lines 115-116 on the incremented count, age being
\* now - this.lastRecoveryAttempt[serviceName]
Inhibited(count, age) == count >= MAX_FAILURES /\ age < RECOVERY_TIME

\* A count that is never reset by the handler
CountAfterNoReset(count) == count

\* The count the handler leaves when it goes on to restart (lines 115-122)
CountAfter(count) == IF count >= MAX_FAILURES THEN 0 ELSE count

\* handleServiceFailure(serviceName, serviceConfig) (lines 109-151), called
\* when now - lastRecoveryAttempt is age and the restart attempts of the last
\* RECOVERY_TIME are recent
handleServiceFailure(kind, age, recent, backupOk) ==
  LET count == failures + 1
      seen == [NoCheck EXCEPT !.kind = kind, !.before = failures, !.age = age]
  IN IF Inhibited(count, age)
       THEN /\ failures' = count
            /\ sinceLastAttempt' = age
            /\ recentRestarts' = recent
            /\ lastCheck' = [seen EXCEPT !.decision = "skip"]
            /\ UNCHANGED commands
       ELSE /\ failures' = CountAfter(count)
            /\ sinceLastAttempt' = 0
            /\ recentRestarts' = <<0>> \o recent
            /\ commands' = commands \cup
                 {<<s, NextId>> : s \in {"taskkill", "start"}}
            /\ lastCheck' = [seen EXCEPT !.decision = "restart",
                               !.steps = RestartSteps(importance, backupOk),
                               !.backupOk = backupOk]

\* The age of a restart attempt d ms later
Later(age, d) == IF age + d < RECOVERY_TIME THEN age + d ELSE RECOVERY_TIME

\* The restart attempts of the last RECOVERY_TIME, d ms later
Aged(recent, d) ==
  SelectSeq([i \in DOMAIN recent |-> Later(recent[i], d)],
            LAMBDA a : a < RECOVERY_TIME)

\* A check that keeps the count when the service runs
CountWhenRunningKept(count) == count

\* The else branch of checkService (lines 96-101)
CountWhenRunning(count) == IF count > 0 THEN 0 ELSE count

\* The interval timer fires d ms after its last firing and checkService
\* (lines 85-104) observes the service through tasklist / ps
HealthCheck(d, isRunning, backupOk) ==
  /\ alive
  /\ isRunning \/ FreeIds # {}
  /\ IF isRunning
       THEN /\ failures' = CountWhenRunning(failures)
            /\ sinceLastAttempt' = Later(sinceLastAttempt, d)
            /\ recentRestarts' = Aged(recentRestarts, d)
            /\ lastCheck' = [NoCheck EXCEPT !.kind = "check",
                               !.isRunning = TRUE, !.before = failures,
                               !.age = Later(sinceLastAttempt, d)]
            /\ UNCHANGED commands
       ELSE handleServiceFailure("check", Later(sinceLastAttempt, d),
                                 Aged(recentRestarts, d), backupOk)
  /\ UNCHANGED <<importance, alive, procs>>

\* The taskkill / pkill of attempt a runs (lines 157-161): every process
\* matching the window title is terminated
RunKill(a) ==
  /\ <<"taskkill", a>> \in commands
  /\ commands' = commands \ {<<"taskkill", a>>}
  /\ procs' = {}
  /\ lastCheck' = NoCheck
  /\ UNCHANGED <<importance, alive, failures, sinceLastAttempt,
                 recentRestarts>>

\* The start command of attempt a runs (line 141) and the service comes up, or
\* does not: the new process is marked a as long as the taskkill of the same
\* attempt has still to run, 0 otherwise
RunStart(a, ok) ==
  /\ <<"start", a>> \in commands
  /\ commands' = commands \ {<<"start", a>>}
  /\ procs' = IF ok
                THEN procs \cup {IF <<"taskkill", a>> \in commands
                                   THEN a ELSE 0}
                ELSE procs
  /\ lastCheck' = NoCheck
  /\ UNCHANGED <<importance, alive, failures, sinceLastAttempt,
                 recentRestarts>>

\* A process of the service exits
ProcessExits(p) ==
  /\ p \in procs
  /\ procs' = procs \ {p}
  /\ lastCheck' = NoCheck
  /\ UNCHANGED <<importance, alive, failures, sinceLastAttempt,
                 recentRestarts, commands>>

\* process.on('uncaughtException') (lines 226-244): handleServiceFailure for
\* every critical service, then the watchdog exits
UncaughtException(backupOk) ==
  /\ alive
  /\ alive' = FALSE
  /\ IF importance = "critical"
       THEN /\ FreeIds # {}
            /\ handleServiceFailure("exception", sinceLastAttempt,
                                    recentRestarts, backupOk)
       ELSE /\ lastCheck' = NoCheck
            /\ UNCHANGED <<failures, sinceLastAttempt, recentRestarts,
                           commands>>
  /\ UNCHANGED <<importance, procs>>

\* stop() (lines 68-80), on SIGINT: the interval timers are cleared
Stop ==
  /\ alive
  /\ alive' = FALSE
  /\ lastCheck' = NoCheck
  /\ UNCHANGED <<importance, failures, sinceLastAttempt, recentRestarts,
                 commands, procs>>

\* The constructor and start() (lines 17-63): Date.now() - 0 is far beyond
\* RECOVERY_TIME; the service runs as the startup script launched it
InitWatchdog ==
  /\ importance \in Importances
  /\ alive = TRUE
  /\ failures = 0
  /\ sinceLastAttempt = RECOVERY_TIME
  /\ recentRestarts = <<>>
  /\ commands = {}
  /\ procs = {0}
  /\ lastCheck = NoCheck

NextWatchdog ==
  \/ \E d \in Intervals : \E r \in BOOLEAN : \E b \in BOOLEAN :
       HealthCheck(d, r, b) /\ UNCHANGED exceptWatchdog
  \/ \E a \in AttemptIds : RunKill(a) /\ UNCHANGED exceptWatchdog
  \/ \E a \in AttemptIds : \E ok \in BOOLEAN :
       RunStart(a, ok) /\ UNCHANGED exceptWatchdog
  \/ \E p \in procs : ProcessExits(p) /\ UNCHANGED exceptWatchdog
  \/ \E b \in BOOLEAN : UncaughtException(b) /\ UNCHANGED exceptWatchdog
  \/ Stop /\ UNCHANGED exceptWatchdog

-----------------------------------------------------------------------------
\* SystemProtection (src/.history/system_protection_20250301135358.js)

\* Bounds of the model
MaxBackupsTaken == 6   \* backup folders made per behaviour
MaxChanges == 2        \* writes of other programs to the critical files per behaviour

\* this.config (lines 19-44), and the default of cleanupOldBackups (line 113)
memoryThreshold == 80
memoryLimit == 90
maxBackups == 5

\* Two of the eight critical files, in the order of the configuration
criticalProgramFiles == <<"service.js", "config.js">>

CriticalFiles == {criticalProgramFiles[i] : i \in 1..Len(criticalProgramFiles)}

\* What a file can hold; Missing is a path for which fs.existsSync is false
Contents == {"v1", "v2"}
Missing == "missing"

\* Memory usage in percent: below, on and above the two thresholds
Usages == {75, 80, 85, 90, 92, 95}

\* calculateFileHash (lines 62-72): the SHA-256 digest of the content
calculateFileHash(content) == <<"sha256", content>>

\* criticalFileHashes[file] of a file that was never hashed
NoHash == "undefined"

\* The backup-* folders sorted by their time, the newest first (lines
\* 115-122 and 317-324)
RECURSIVE SortNewestFirst(_)
SortNewestFirst(S) ==
  IF S = {} THEN <<>>
  ELSE LET n == CHOOSE b \in S : \A x \in S : x.time <= b.time
       IN  <<n>> \o SortNewestFirst(S \ {n})

\* cleanupOldBackups (lines 113-132): all but the maxBackups newest folders
\* are deleted
cleanupKeepsOldest(S) ==
  LET sorted == SortNewestFirst(S)
  IN  {sorted[i] : i \in (Len(sorted) - Min(Len(sorted), maxBackups) + 1)..Len(sorted)}

cleanupOldBackups(S) ==
  LET sorted == SortNewestFirst(S)
  IN  {sorted[i] : i \in 1..Min(Len(sorted), maxBackups)}

\* What can go wrong in backupCriticalFiles: nothing, or the mkdirSync of the
\* folder throws; the copies into a folder that was made succeed
BackupFailures == {"none", "mkdir"}

\* The return value of a backupCriticalFiles call that threw (null)
NoFolder == 0

\* No fresh sample: handleExcessiveMemoryUsage was not called
NoSample == 0

\* backupCriticalFiles (lines 77-108): a new folder takes a copy of every
\* existing critical file, the hash of each copied file is recorded, the old
\* folders are cleaned up; an exception of mkdirSync ends the call
BackupCriticalFiles(fail) ==
  IF fail = "mkdir"
  THEN [backups |-> backups, hashes |-> criticalFileHashes, folder |-> NoFolder]
  ELSE
    LET copied == {f \in CriticalFiles : files[f] # Missing}
        folder == [time |-> backupClock + 1,
                   copies |-> [f \in CriticalFiles |->
                                 IF f \in copied THEN files[f] ELSE Missing]]
        hashes == [f \in CriticalFiles |->
                     IF f \in copied THEN calculateFileHash(files[f])
                     ELSE criticalFileHashes[f]]
    IN  [backups |-> cleanupOldBackups(backups \cup {folder}),
         hashes |-> hashes, folder |-> folder.time]

NoBackup == [kind |-> "none", folder |-> NoFolder]
NoMemoryCheck ==
  [kind |-> "none", usage |-> 0, gcCalls |-> 0, gcRuns |-> 0,
   fresh |-> NoSample, restarts |-> 0]
NoIntegrityCheck ==
  [kind |-> "none", corrupted |-> <<>>, missing |-> {}, restored |-> {},
   failed |-> {}, repeated |-> FALSE, previous |-> {}]

\* goodContent[file] of a file that did not change
NoContent == "none"

\* A backupCriticalFiles call of this SystemProtection object
Backup(fail) ==
  LET b == BackupCriticalFiles(fail)
  IN  /\ backupClock < MaxBackupsTaken
      /\ backups' = b.backups
      /\ criticalFileHashes' = b.hashes
      /\ backupClock' = IF fail = "mkdir" THEN backupClock ELSE backupClock + 1
      /\ lastBackup' = [kind |-> "backup", folder |-> b.folder]

\* initialize (lines 443-453): a first backup, then the timers are started
Initialize(fail) ==
  /\ ~initialized
  /\ Backup(fail)
  /\ initialized' = TRUE
  /\ lastMemoryCheck' = NoMemoryCheck
  /\ lastIntegrityCheck' = NoIntegrityCheck
  /\ UNCHANGED <<exposeGc, files, changes, heldOpen, goodContent>>

\* collectGarbage (lines 220-231): global.gc() runs only where it is defined
collectGarbage == IF exposeGc THEN 1 ELSE 0

\* What checkMemoryUsage does with its sample (lines 204-211)
BandLimitOnly(usage) ==
  IF usage > memoryLimit THEN "excessive" ELSE "normal"

Band(usage) ==
  IF usage > memoryLimit THEN "excessive"
  ELSE IF usage > memoryThreshold THEN "high"
  ELSE "normal"

\* handleExcessiveMemoryUsage (lines 236-254): the restart is decided on a
\* fresh sample taken after the garbage collection
RestartsAlways(fresh) == 1

Restarts(fresh) == IF fresh > memoryLimit THEN 1 ELSE 0

\* checkMemoryUsage (lines 196-215) with handleExcessiveMemoryUsage and
\* restartService (lines 259-273), which takes a backup before it hands the
\* restart script to exec
CheckMemoryUsage(usage, fresh, fail) ==
  LET band == Band(usage)
      restarts == IF band = "excessive" THEN Restarts(fresh) ELSE 0
      calls == IF band = "normal" THEN 0 ELSE 1
  IN  /\ initialized
      /\ fresh = NoSample <=> band # "excessive"
      /\ lastMemoryCheck' =
           [kind |-> "check", usage |-> usage, gcCalls |-> calls,
            gcRuns |-> calls * collectGarbage,
            fresh |-> fresh, restarts |-> restarts]
      /\ IF restarts > 0
         THEN Backup(fail)
         ELSE /\ fail = "none"
              /\ lastBackup' = NoBackup
              /\ UNCHANGED <<backups, criticalFileHashes, backupClock>>
      /\ lastIntegrityCheck' = NoIntegrityCheck
      /\ UNCHANGED <<exposeGc, initialized, files, changes, heldOpen,
                 goodContent>>

\* handleProcessError (lines 408-438): an uncaught exception restarts the
\* service, an unhandled rejection is only reported
ErrorTypes == {"uncaughtException", "unhandledRejection"}

HandleProcessError(type, fail) ==
  /\ initialized
  /\ IF type = "uncaughtException"
     THEN Backup(fail)
     ELSE /\ fail = "none"
          /\ lastBackup' = NoBackup
          /\ UNCHANGED <<backups, criticalFileHashes, backupClock>>
  /\ lastMemoryCheck' = NoMemoryCheck
  /\ lastIntegrityCheck' = NoIntegrityCheck
  /\ UNCHANGED <<exposeGc, initialized, files, changes, heldOpen,
                 goodContent>>

\* The Watchdog that made this object (watchdog.js, line 39) calls its
\* backupCriticalFiles before it restarts a critical service (watchdog.js,
\* line 132)
WatchdogBackup(fail) ==
  /\ initialized
  /\ Backup(fail)
  /\ lastMemoryCheck' = NoMemoryCheck
  /\ lastIntegrityCheck' = NoIntegrityCheck
  /\ UNCHANGED <<exposeGc, initialized, files, changes, heldOpen,
                 goodContent>>

\* Another program writes, replaces or deletes a critical file; where the
\* newest backup holds the content the file had until now, that content is
\* remembered as its good one
FileChanges(f, c) ==
  /\ changes < MaxChanges
  /\ c # files[f]
  /\ files' = [files EXCEPT ![f] = c]
  /\ changes' = changes + 1
  /\ goodContent' =
       IF /\ goodContent[f] = NoContent
          /\ files[f] # Missing
          /\ \E b \in backups :
               /\ \A x \in backups : x.time <= b.time
               /\ b.copies[f] = files[f]
       THEN [goodContent EXCEPT ![f] = files[f]]
       ELSE goodContent
  /\ lastBackup' = NoBackup
  /\ lastMemoryCheck' = NoMemoryCheck
  /\ lastIntegrityCheck' = NoIntegrityCheck
  /\ UNCHANGED <<exposeGc, initialized, criticalFileHashes, backups,
                 backupClock, heldOpen>>

\* The critical files another program may hold open: the first one, whose
\* copy comes first in a restoration
Holdable == {criticalProgramFiles[1]}

\* Another program opens or closes critical files: while it holds a file
\* open, a copyFileSync onto that file throws
HoldChanges(held) ==
  /\ held # heldOpen
  /\ heldOpen' = held
  /\ lastBackup' = NoBackup
  /\ lastMemoryCheck' = NoMemoryCheck
  /\ lastIntegrityCheck' = NoIntegrityCheck
  /\ UNCHANGED <<exposeGc, initialized, files, criticalFileHashes, backups,
                 backupClock, changes, goodContent>>

\* The test of checkFileIntegrity on one file (lines 282-302)
IsCorruptedWithoutBaseline(f) ==
  \/ files[f] = Missing
  \/ calculateFileHash(files[f]) # criticalFileHashes[f]

IsCorrupted(f) ==
  \/ files[f] = Missing
  \/ /\ criticalFileHashes[f] # NoHash
     /\ calculateFileHash(files[f]) # criticalFileHashes[f]

\* corruptedFiles of checkFileIntegrity, in the order of the configuration
CorruptedFilesAll == criticalProgramFiles

CorruptedFiles == SelectSeq(criticalProgramFiles, IsCorrupted)

\* The loop of restoreFromBackup (lines 332-344): a file of the latest backup
\* is copied back, a file the latest backup lacks is passed over, and a
\* copyFileSync that throws (copyFails: the files it throws for) ends the
\* loop, as the try of line 316 is around it
RECURSIVE RestoreLoop(_, _, _, _)
RestoreLoop(dir, latest, todo, copyFails) ==
  IF todo = <<>> THEN [files |-> dir, restored |-> {}, failed |-> {}]
  ELSE
    LET f == Head(todo)
    IN  IF latest.copies[f] = Missing
        THEN RestoreLoop(dir, latest, Tail(todo), copyFails)
        ELSE IF f \in copyFails
        THEN [files |-> dir, restored |-> {}, failed |-> {f}]
        ELSE LET rest == RestoreLoop([dir EXCEPT ![f] = latest.copies[f]],
                                     latest, Tail(todo), copyFails)
             IN  [rest EXCEPT !.restored = @ \cup {f}]

\* The backup restoreFromBackup takes the files from (lines 317-330)
LatestBackupOldest ==
  CHOOSE b \in backups : \A x \in backups : b.time <= x.time

LatestBackup == Head(SortNewestFirst(backups))

\* restoreFromBackup (lines 315-349)
restoreFromBackup(corrupted, copyFails) ==
  IF backups = {}
  THEN [files |-> files, restored |-> {}, failed |-> {}]
  ELSE RestoreLoop(files, LatestBackup, corrupted, copyFails)

\* checkFileIntegrity (lines 278-310)
CheckFileIntegrity ==
  LET corrupted == CorruptedFiles
      r == IF corrupted = <<>>
           THEN [files |-> files, restored |-> {}, failed |-> {}]
           ELSE restoreFromBackup(corrupted, heldOpen)
  IN  /\ initialized
      /\ files' = r.files
      /\ lastIntegrityCheck' =
           [kind |-> "check", corrupted |-> corrupted,
            missing |-> {f \in CriticalFiles : files[f] = Missing},
            restored |-> r.restored, failed |-> r.failed,
            repeated |-> lastIntegrityCheck.kind = "check",
            previous |-> lastIntegrityCheck.restored]
      /\ goodContent' = [f \in CriticalFiles |-> NoContent]
      /\ lastBackup' = NoBackup
      /\ lastMemoryCheck' = NoMemoryCheck
      /\ UNCHANGED <<exposeGc, initialized, criticalFileHashes, backups,
                     backupClock, changes, heldOpen>>

InitProtection ==
  /\ exposeGc \in BOOLEAN
  /\ initialized = FALSE
  /\ files \in [CriticalFiles -> {"v1", Missing}]
  /\ criticalFileHashes = [f \in CriticalFiles |-> NoHash]
  /\ backups = {}
  /\ backupClock = 0
  /\ changes = 0
  /\ heldOpen = {}
  /\ goodContent = [f \in CriticalFiles |-> NoContent]
  /\ lastBackup = NoBackup
  /\ lastMemoryCheck = NoMemoryCheck
  /\ lastIntegrityCheck = NoIntegrityCheck

\* restartService (lines 259-273) as the critical files see it: a backup is
\* taken before the restart script is handed to exec
RestartService(fail) ==
  /\ initialized
  /\ Backup(fail)
  /\ lastMemoryCheck' = NoMemoryCheck
  /\ lastIntegrityCheck' = NoIntegrityCheck
  /\ UNCHANGED <<exposeGc, initialized, files, changes, heldOpen,
                 goodContent>>

\* The memory guard: initialize, the memory checks and the process errors
NextMemory ==
  \/ \E fail \in BackupFailures : Initialize(fail) /\ UNCHANGED exceptProtection
  \/ \E usage \in Usages : \E fresh \in Usages \cup {NoSample} :
       \E fail \in BackupFailures :
         CheckMemoryUsage(usage, fresh, fail) /\ UNCHANGED exceptProtection
  \/ \E type \in ErrorTypes : \E fail \in BackupFailures :
       HandleProcessError(type, fail) /\ UNCHANGED exceptProtection

\* The integrity guard: initialize, the backups, the writes of other programs
\* and the integrity checks
NextIntegrity ==
  \/ \E fail \in BackupFailures : Initialize(fail) /\ UNCHANGED exceptProtection
  \/ \E fail \in BackupFailures : RestartService(fail) /\ UNCHANGED exceptProtection
  \/ \E fail \in BackupFailures : WatchdogBackup(fail) /\ UNCHANGED exceptProtection
  \/ \E f \in CriticalFiles : \E c \in Contents \cup {Missing} :
       FileChanges(f, c) /\ UNCHANGED exceptProtection
  \/ \E held \in SUBSET Holdable :
       HoldChanges(held) /\ UNCHANGED exceptProtection
  \/ CheckFileIntegrity /\ UNCHANGED exceptProtection

-----------------------------------------------------------------------------
\* NetworkMonitor (src/network_monitor.js)
\*
\* checkConnectivity is an async function: it reads this.isOnline into the
\* local wasOnline, awaits isConnected(), and goes on when the result is
\* there. start() and the interval timer call it without awaiting it, so a
\* call can begin while earlier ones still wait.

MaxPending == 2    \* checkConnectivity calls awaiting their result at once
MaxTicks   == 2    \* firings of the interval timer per behaviour

CheckSlots == 1..MaxPending

NoPending == [pc |-> "none", wasOnline |-> FALSE]

FreeSlots == {i \in CheckSlots : pending[i].pc = "none"}

\* checkConnectivity() up to its await (lines 33-36): wasOnline is read and
\* isConnected() is called
BeginCheck ==
  /\ FreeSlots # {}
  /\ LET i == CHOOSE j \in FreeSlots : \A k \in FreeSlots : j <= k
     IN pending' = [pending EXCEPT
                      ![i] = [pc |-> "awaiting", wasOnline |-> isOnline]]

\* start() (lines 19-23): a first check, then the interval timer
StartMonitor ==
  /\ intervalId = Null
  /\ BeginCheck
  /\ intervalId' = 1
  /\ emitted' = <<>>
  /\ UNCHANGED <<isOnline, lastOnlineTime, monitorNow, lastEmitted>>

\* The setInterval callback (line 22), checkInterval ms after the last one
IntervalFires ==
  /\ intervalId # Null
  /\ monitorNow < MaxTicks
  /\ monitorNow' = monitorNow + 1
  /\ BeginCheck
  /\ emitted' = <<>>
  /\ UNCHANGED <<isOnline, intervalId, lastOnlineTime, lastEmitted>>

\* stop() (lines 25-31): the timer is cleared; checks under way go on
StopMonitor ==
  /\ intervalId # Null
  /\ intervalId' = Null
  /\ emitted' = <<>>
  /\ UNCHANGED <<isOnline, lastOnlineTime, pending, monitorNow, lastEmitted>>

\* The event of lines 38-49: 'online' when the check found the network and
\* wasOnline is false, 'offline' when it did not and wasOnline is true
Transition(wasOnline, connected) ==
  IF connected /\ ~wasOnline THEN <<"online">>
  ELSE IF ~connected /\ wasOnline THEN <<"offline">>
  ELSE <<>>

\* isConnected() (lines 65-81) settles with true (a host resolved, or the
\* ping answered) or false, and the check in slot i goes on (lines 36-57)
CheckCompletes(i, connected) ==
  /\ pending[i].pc = "awaiting"
  /\ LET events == Transition(pending[i].wasOnline, connected)
     IN /\ isOnline' = connected
        /\ lastOnlineTime' = IF connected THEN monitorNow ELSE lastOnlineTime
        /\ emitted' = events \o <<"statusUpdate">>
        /\ lastEmitted' = IF events = <<>> THEN lastEmitted ELSE events[1]
  /\ pending' = [pending EXCEPT ![i] = NoPending]
  /\ UNCHANGED <<intervalId, monitorNow>>

\* The constructor (lines 6-17)
InitMonitor ==
  /\ isOnline = FALSE
  /\ intervalId = Null
  /\ lastOnlineTime = Null
  /\ pending = [i \in CheckSlots |-> NoPending]
  /\ monitorNow = 0
  /\ emitted = <<>>
  /\ lastEmitted = "none"

NextMonitor ==
  \/ StartMonitor /\ UNCHANGED exceptMonitor
  \/ IntervalFires /\ UNCHANGED exceptMonitor
  \/ StopMonitor /\ UNCHANGED exceptMonitor
  \/ \E i \in CheckSlots : \E connected \in BOOLEAN :
       CheckCompletes(i, connected) /\ UNCHANGED exceptMonitor

-----------------------------------------------------------------------------
\* The specifications: one component runs, the other ones rest

\* The Watchdog at rest, following a critical service
WatchdogAtRest == InitWatchdog /\ importance = "critical"

\* ErrorRecovery at rest, in one configuration
RecoveryAtRest == InitRecovery /\ maxRetries = 1 /\ failureThreshold = 1

\* SystemProtection at rest: all critical files are there
ProtectionAtRest ==
  /\ InitProtection
  /\ exposeGc = TRUE
  /\ files = [f \in CriticalFiles |-> "v1"]

Init ==
  /\ InitQueue /\ InitFetch /\ RecoveryAtRest /\ WatchdogAtRest
  /\ ProtectionAtRest /\ InitMonitor

\* The queue at rest in one configuration, for the behaviours of ApiService
InitOneWorker == Init /\ maxConcurrentOperations = 1 /\ batchSize = 1

\* The queue and ApiService at rest, for the behaviours of ErrorRecovery
InitForRecovery ==
  /\ InitQueue /\ maxConcurrentOperations = 1 /\ batchSize = 1
  /\ InitFetch
  /\ InitRecovery
  /\ WatchdogAtRest
  /\ ProtectionAtRest
  /\ InitMonitor

\* The other components at rest, for the behaviours of the Watchdog
InitForWatchdog ==
  /\ InitQueue /\ maxConcurrentOperations = 1 /\ batchSize = 1
  /\ InitFetch
  /\ RecoveryAtRest
  /\ InitWatchdog
  /\ ProtectionAtRest
  /\ InitMonitor

\* The other components at rest and all critical files in place, for the
\* behaviours of the memory guard
InitForMemory ==
  /\ InitQueue /\ maxConcurrentOperations = 1 /\ batchSize = 1
  /\ InitFetch
  /\ RecoveryAtRest
  /\ WatchdogAtRest
  /\ InitProtection
  /\ InitMonitor
  /\ files = [f \in CriticalFiles |-> "v1"]

\* The other components at rest, for the behaviours of the integrity guard
InitForIntegrity ==
  /\ InitQueue /\ maxConcurrentOperations = 1 /\ batchSize = 1
  /\ InitFetch
  /\ RecoveryAtRest
  /\ WatchdogAtRest
  /\ InitProtection
  /\ InitMonitor
  /\ exposeGc = TRUE

SpecQueue == Init /\ [][NextQueue]_vars

SpecQueueFair == SpecQueue /\ FairQueue

SpecFetch == InitOneWorker /\ [][NextFetch]_vars

SpecRecovery == InitForRecovery /\ [][NextRecovery]_vars

SpecWatchdog == InitForWatchdog /\ [][NextWatchdog]_vars

SpecMemory == InitForMemory /\ [][NextMemory]_vars

\* The other components at rest, for the behaviours of the NetworkMonitor
InitForMonitor ==
  /\ InitQueue /\ maxConcurrentOperations = 1 /\ batchSize = 1
  /\ InitFetch
  /\ RecoveryAtRest
  /\ WatchdogAtRest
  /\ ProtectionAtRest
  /\ InitMonitor

SpecMonitor == InitForMonitor /\ [][NextMonitor]_vars

SpecIntegrity == InitForIntegrity /\ [][NextIntegrity]_vars

\* The interval timer of a running watchdog keeps firing (setInterval, lines
\* 57-59), and the child processes handed to exec get to run
TimerFires ==
  \E d \in Intervals : \E r \in BOOLEAN : \E b \in BOOLEAN :
    HealthCheck(d, r, b) /\ UNCHANGED exceptWatchdog

CommandRuns ==
  \/ \E a \in AttemptIds : RunKill(a) /\ UNCHANGED exceptWatchdog
  \/ \E a \in AttemptIds : \E ok \in BOOLEAN :
       RunStart(a, ok) /\ UNCHANGED exceptWatchdog

FairWatchdog == WF_vars(TimerFires) /\ WF_vars(CommandRuns)

\* The services of the default servicesMap (lines 20-33) are critical ones
InitCriticalService == InitForWatchdog /\ importance = "critical"

SpecWatchdogFair ==
  InitCriticalService /\ [][NextWatchdog]_vars /\ FairWatchdog

-----------------------------------------------------------------------------
\* Claims about the operation queue

\* metadata.priority with a missing priority counted as 0
EffPriority(item) ==
  IF item.metadata.priority = Undefined THEN 0 ELSE item.metadata.priority

\* The ids waiting to be dispatched when a step begins, the item that very
\* step pushes included
WaitingIds == SeqIds(queue) \cup (IF submitted' # submitted THEN {submitted'} ELSE {})

\* C1: with maxConcurrentOperations = k >= 1 and any batchSize, the number of
\* operations in flight (activeOperations) never exceeds k.
C1_ActiveWithinLimit ==
  maxConcurrentOperations >= 1 => activeOperations <= maxConcurrentOperations

\* The steps the callback of item i still has to take
Remaining(i) ==
  CASE worker[i] = "fs" -> 3
    [] worker[i] = "op" -> 2
    [] worker[i] = "settled" -> 1
    [] worker[i] = "done" -> 0
    [] OTHER -> IF i \in SeqIds(queue) THEN 4 ELSE 0

RECURSIVE SumRemaining(_)
SumRemaining(n) == IF n = 0 THEN 0 ELSE Remaining(n) + SumRemaining(n - 1)

\* The steps the queue still has to take for what has been submitted
Work ==
  SumRemaining(MaxOps) + immediates + (IF loopPc = "awaiting" THEN 1 ELSE 0)

Unsettled == {i \in 1..submitted : settleCount[i] = 0}

\* Some step of QueueProgress can be taken: a callback can go on, the loop can
\* resume, or an armed immediate can run
QueueHasStep ==
  \/ \E i \in Ids : worker[i] \in {"fs", "op", "settled"}
  \/ loopPc = "awaiting" /\ BatchSettled
  \/ immediates > 0

\* C2: every operation passed to scheduleOperation has its future settled
\* exactly once, eventually, provided maxConcurrentOperations >= 1 and every
\* operation's own promise settles; operations submitted while a batch is in
\* progress or while the loop is about to end are not lost. Stated as: no
\* future is settled twice; while a submitted operation is unsettled the queue
\* has a step to take (no lost wake-up); and every step of the queue brings
\* Work down. Under the fairness of SpecQueueFair the three give
\* C2_EventuallySettled.
C2_EverySettledOnce ==
  /\ [](\A i \in Ids : /\ settleCount[i] <= 1
                       /\ (settleCount[i] = 1) = (future[i] # Pending)
                       /\ (i > submitted => settleCount[i] = 0))
  /\ []((maxConcurrentOperations >= 1 /\ Unsettled # {})
          => QueueHasStep)
  /\ [][(maxConcurrentOperations >= 1 /\ submitted' = submitted)
          => Work' < Work]_vars

\* The temporal form of C2
C2_EventuallySettled ==
  \A i \in Ids :
    (maxConcurrentOperations >= 1 /\ submitted >= i)
      ~> (settleCount[i] = 1 /\ future[i] # Pending)

\* C2 witness: an item pushed during a batch is still queued at the moment
\* the batch has settled and the loop has not yet resumed
C2_Witness ==
  /\ maxConcurrentOperations >= 1
  /\ loopPc = "awaiting" /\ BatchSettled
  /\ queue # <<>>
  /\ \E i \in Ids : settleCount[i] = 1

\* C3: each batch consists of the up-to-batchSize oldest queued items, pulled
\* from the queue in one step, and is dispatched in order of priority
\* descending (missing priority = 0), ties in order of enqueue time ascending.
C3_BatchFormation ==
  [][batchNo' # batchNo =>
      /\ Len(batch') = Min(batchSize, Cardinality(WaitingIds))
      /\ SeqIds(batch') \subseteq WaitingIds
      /\ SeqIds(queue') = WaitingIds \ SeqIds(batch')
      /\ \A x \in SeqIds(batch') : \A y \in SeqIds(queue') : x < y
      /\ dispatched' = dispatched \o [j \in 1..Len(batch') |-> batch'[j].id]
      /\ \A j, k \in 1..Len(batch') :
           j < k =>
             \/ EffPriority(batch'[j]) > EffPriority(batch'[k])
             \/ /\ EffPriority(batch'[j]) = EffPriority(batch'[k])
                /\ batch'[j].addedTime <= batch'[k].addedTime
  ]_vars

\* C3 witness: a batch of two whose later-submitted item goes first
C3_Witness ==
  /\ Len(batch) >= 2
  /\ batch[1].id > batch[2].id
  /\ EffPriority(batch[1]) > EffPriority(batch[2])

\* C4: of two operations of equal priority, the one submitted first is
\* dispatched no later than the other: when a batch is dispatched no older
\* item of the same priority stays behind in the queue, and inside the batch
\* items of the same priority go in submission order.
C4_FifoAmongEqualPriority ==
  [][batchNo' # batchNo =>
      /\ \A j \in 1..Len(batch') : \A k \in 1..Len(queue') :
           EffPriority(batch'[j]) = EffPriority(queue'[k])
             => batch'[j].id < queue'[k].id
      /\ \A j, k \in 1..Len(batch') :
           (j < k /\ EffPriority(batch'[j]) = EffPriority(batch'[k]))
             => batch'[j].id < batch'[k].id
      /\ \A j \in 1..Len(batch') : \A m \in 1..Len(dispatched) :
           dispatched[m] # batch'[j].id
  ]_vars

\* C4 witness: two items of equal priority, one without priority and one with
\* priority 0, dispatched together in a batch that is not the first one
C4_Witness ==
  /\ Len(batch) = 2
  /\ EffPriority(batch[1]) = EffPriority(batch[2])
  /\ batch[1].metadata.priority # batch[2].metadata.priority
  /\ batchNo >= 2

\* C5: when an operation throws or rejects, only its own future is rejected,
\* with that error, and operationsFailed grows by exactly one; the other
\* operations keep their state and settle with their own outcome.
C5_FailureIsolated ==
  [][\A i \in Ids :
       (worker[i] = "settled" /\ worker'[i] = "done") =>
         /\ \A j \in Ids \ {i} : future'[j] = future[j] /\ worker'[j] = worker[j]
                                  /\ settleCount'[j] = settleCount[j]
         /\ queue' = queue /\ isProcessing' = isProcessing /\ loopPc' = loopPc
         /\ future'[i].value = opResult[i].value
         /\ IF opResult[i].ok
              THEN /\ future'[i].state = "resolved"
                   /\ operationsFailed' = operationsFailed
                   /\ operationsCompleted' = operationsCompleted + 1
              ELSE /\ future'[i].state = "rejected"
                   /\ operationsFailed' = operationsFailed + 1
                   /\ operationsCompleted' = operationsCompleted
  ]_vars

\* C5 witness: after a failure in the first batch the loop went on to a second
\* batch, in which one operation was rejected and its sibling resolved
C5_Witness ==
  /\ batchNo >= 2 /\ Len(batch) = 2
  /\ \E i \in Ids \ SeqIds(batch) : future[i].state = "rejected"
  /\ \E i, j \in SeqIds(batch) :
       /\ future[i].state = "rejected"
       /\ future[j].state = "resolved"
  /\ operationsFailed = 2 /\ operationsCompleted = 1

-----------------------------------------------------------------------------
\* Claims about fetchWithRetry

\* The cache entry of the endpoint of the call that has just ended
ReturnedEntry == cache[getCachePath(returned.endpoint)]

\* The call that has just ended gave up (fallback or throw)
GaveUp == returned.kind \in {"fallback", "thrown"}

\* ... and every one of its network attempts failed with a retryable error
AllAttemptsRetryable == GaveUp /\ returned.n4xx = 0

Is4xx(error) == error.hasResponse /\ error.status >= 400 /\ error.status < 500

\* C6: when every network attempt fails with a retryable error, the call
\* returns {data: cached payload, fromCache: true, timestamp: stored timestamp}
\* if and only if a cache entry exists for the endpoint, whatever the cached
\* payload, and throws only when no entry exists.
C6_FallbackIffEntryExists ==
  AllAttemptsRetryable =>
    /\ ReturnedEntry.exists =>
         /\ returned.kind = "fallback" /\ returned.fromCache
         /\ returned.data = ReturnedEntry.data
         /\ returned.timestamp = ReturnedEntry.timestamp
    /\ ~ReturnedEntry.exists => returned.kind = "thrown"

\* C7 as claimed: with no cache entry and every attempt failing with a
\* retryable error, the call fails outward after exactly as many network
\* attempts as the delay table has entries (5).
C7_ThrowsAfterFiveAttempts ==
  (AllAttemptsRetryable /\ ~ReturnedEntry.exists) =>
    /\ returned.kind = "thrown"
    /\ returned.attempts = Len(retryDelays)

\* C7 as amended: ... the call fails outward after exactly 6 network
\* attempts, the first one and one retry per entry of the delay table, every
\* delay of the table having been waited once, in order.
C7_ThrowsAfterSixAttempts ==
  (AllAttemptsRetryable /\ ~ReturnedEntry.exists) =>
    /\ returned.kind = "thrown"
    /\ returned.attempts = Len(retryDelays) + 1
    /\ returned.waited = retryDelays
    /\ isRetryableError(returned.error)

C7_Witness ==
  /\ AllAttemptsRetryable /\ ~ReturnedEntry.exists
  /\ returned.kind = "thrown"
  /\ returned.attempts > Len(retryDelays)

\* C8: an attempt that fails with HTTP 4xx is never retried: the call ends
\* with that attempt, no delay is waited after it, and when it was the first
\* attempt exactly one request was made; network errors and 5xx responses are
\* retried, as long as the delay table lasts.
C8_NoRetryOn4xx ==
  /\ call.pc # "idle" => call.n4xx = 0
  /\ (returned.kind # "none" /\ returned.n4xx > 0) =>
       /\ returned.n4xx = 1
       /\ GaveUp
       /\ Len(returned.waited) = returned.attempts - 1
       /\ (returned.kind = "thrown" => Is4xx(returned.error))
  /\ AllAttemptsRetryable =>
       /\ returned.attempts = Len(retryDelays) + 1
       /\ Len(returned.waited) = Len(retryDelays)

C8_Witness ==
  /\ returned.kind = "thrown"
  /\ Is4xx(returned.error)
  /\ returned.attempts = 1
  /\ returned.waited = <<>>

\* C9 as claimed: a fetch whose attempt fails with HTTP 4xx fails outward;
\* the cached payload is a fallback only after the retries of a transient
\* failure are exhausted.
C9_4xxFailsOutward ==
  /\ (returned.kind # "none" /\ returned.n4xx > 0) => returned.kind = "thrown"
  /\ returned.kind = "fallback" =>
       returned.n4xx = 0 /\ returned.attempts = Len(retryDelays) + 1

\* C9 as amended: a fetch whose attempt fails with HTTP 4xx is not retried;
\* it returns the cached payload, marked fromCache, when the endpoint has a
\* cache entry with a truthy payload, and throws the 4xx error when the
\* endpoint has no cache entry. The cached payload is a fallback only when the
\* call gives up: after a 4xx, or after the retries of a transient failure are
\* exhausted.
C9_4xxFallsBackToCache ==
  /\ (returned.kind # "none" /\ returned.n4xx > 0) =>
       /\ (ReturnedEntry.exists /\ Truthy(ReturnedEntry.data)) =>
            /\ returned.kind = "fallback" /\ returned.fromCache
            /\ returned.data = ReturnedEntry.data
            /\ returned.timestamp = ReturnedEntry.timestamp
       /\ ~ReturnedEntry.exists =>
            returned.kind = "thrown" /\ Is4xx(returned.error)
  /\ returned.kind = "fallback" =>
       \/ returned.n4xx = 1
       \/ returned.n4xx = 0 /\ returned.attempts = Len(retryDelays) + 1

C9_Witness ==
  /\ returned.kind = "fallback"
  /\ returned.n4xx = 1
  /\ returned.attempts = 1
  /\ Truthy(returned.data)

\* C10: after a call that obtained a successful response for endpoint e the
\* cache entry of e holds exactly that payload, so that a later fetch for e
\* that exhausts its retries falls back to the payload of the most recently
\* completed successful fetch for e, overlapping fetches included.
C10_CacheHoldsLastSuccess ==
  /\ returned.kind = "data" =>
       /\ ReturnedEntry.exists
       /\ ReturnedEntry.data = returned.data
       /\ ReturnedEntry.timestamp = clock
  /\ (AllAttemptsRetryable /\ lastSuccess[returned.endpoint] # Null) =>
       /\ returned.kind = "fallback"
       /\ returned.data = lastSuccess[returned.endpoint]

\* The endpoint of the fetchWithRetry call that a step begins, <<>> when the
\* step begins none
Begun ==
  IF call.pc # "idle" THEN <<>>
  ELSE IF call'.pc # "idle" THEN call'.endpoint
  ELSE returned'.endpoint

BegunCacheFirst ==
  IF call'.pc # "idle" THEN call'.cacheFirst ELSE returned'.cacheFirst

\* C11: a call with options.cacheFirst set returns the cached data, marked
\* fromCache: true, without any network attempt whenever a cache entry is
\* present for the endpoint; when no entry is present it sends its request
\* exactly as a call without the flag does.
C11_CacheFirstSkipsNetwork ==
  [][(Begun # <<>> /\ BegunCacheFirst) =>
       LET entry == cache[getCachePath(Begun)]
       IN IF entry.exists
            THEN /\ call'.pc = "idle"
                 /\ returned'.kind = "cacheFirst"
                 /\ returned'.fromCache
                 /\ returned'.data = entry.data
                 /\ returned'.attempts = 0
            ELSE /\ returned' = NoReturn
                 /\ call' = [IdleCall EXCEPT !.pc = "inflight", !.attempts = 1,
                               !.endpoint = Begun, !.cacheFirst = TRUE]]_vars

-----------------------------------------------------------------------------
\* Claims about ErrorRecovery

\* The record of the followed withRetry call: the one that just ended, or
\* else the one in progress
RetryView == IF retryReturned.kind # "none" THEN retryReturned ELSE retry

\* What every withRetry call keeps to, whatever it waits between attempts: at
\* most maxRetries invocations, one delay after every failed attempt but the
\* last, the result of the first success returned at once, the error thrown
\* only after maxRetries failures in a row
RetryDiscipline ==
  /\ RetryView.invocations <= maxRetries
  /\ RetryView.failed <= RetryView.invocations
  /\ RetryView.invocations <= RetryView.failed + 1
  /\ Len(RetryView.waited) <= maxRetries - 1
  /\ Len(RetryView.waited) <= RetryView.failed
  /\ RetryView.failed < maxRetries => Len(RetryView.waited) = RetryView.failed
  /\ retryReturned.kind # "none" => retry = IdleRetry
  /\ retryReturned.kind = "result" =>
       retryReturned.invocations = retryReturned.failed + 1
  /\ retryReturned.kind = "thrown" =>
       /\ retryReturned.invocations = maxRetries
       /\ retryReturned.failed = maxRetries
       /\ Len(retryReturned.waited) = maxRetries - 1

\* C12: withRetry invokes the operation at most maxRetries times, returns the
\* result of the first successful attempt without a further attempt, throws
\* only after exactly maxRetries failed attempts in a row, waits
\* retryDelays[i] between failed attempt i and the next attempt, and waits
\* nothing after the last failed attempt.
C12_WaitsTableEntry ==
  /\ RetryDiscipline
  /\ \A i \in DOMAIN RetryView.waited :
       /\ i \in DOMAIN recoveryRetryDelays
       /\ RetryView.waited[i] = recoveryRetryDelays[i]

\* C12, amended: the same, the delay being 1000 ms where the table has no
\* entry, or the entry 0, for the failed attempt.
C12_WaitsTableEntryOrDefault ==
  /\ RetryDiscipline
  /\ \A i \in DOMAIN RetryView.waited :
       RetryView.waited[i] =
         IF i \in DOMAIN recoveryRetryDelays /\ recoveryRetryDelays[i] # 0
           THEN recoveryRetryDelays[i]
           ELSE 1000

\* C12 witness: a call under maxRetries = 5 throws after five failed attempts,
\* having waited past the end of the delay table
C12_Witness ==
  /\ maxRetries = 5
  /\ retryReturned.kind = "thrown"
  /\ retryReturned.invocations = 5
  /\ retryReturned.waited = <<1000, 5000, 15000, 1000>>

\* Whether the step records a failure for name n
FailureRecorded(n) ==
  \/ failureCount'[n] # failureCount[n]
  \/ recoveries'[n] # recoveries[n]

\* C13: recordFailure initiates the recovery (restart) of a service and resets
\* its failure count to 0 exactly when the running count of that name reaches
\* failureThreshold and the name is in criticalServices; for a name outside
\* the set no restart is ever triggered and the count is never reset.
C13_RecoveryExactlyAtThreshold ==
  /\ [](\A n \in Names :
          /\ restartCommands[n] <= recoveries[n]
          /\ n \in criticalServices => failureCount[n] < failureThreshold
          /\ n \notin criticalServices =>
               recoveries[n] = 0 /\ restartCommands[n] = 0)
  /\ [][\A n \in Names :
          IF FailureRecorded(n)
            THEN IF failureCount[n] + 1 = failureThreshold
                      /\ n \in criticalServices
                   THEN /\ recoveries'[n] = recoveries[n] + 1
                        /\ failureCount'[n] = 0
                        /\ restartCommands'[n] - restartCommands[n] \in {0, 1}
                   ELSE /\ recoveries'[n] = recoveries[n]
                        /\ failureCount'[n] = failureCount[n] + 1
                        /\ restartCommands'[n] = restartCommands[n]
            ELSE restartCommands'[n] = restartCommands[n]]_vars

\* C13 witness: under threshold 2 the critical name has been recovered, its
\* restart script run, and the count of the other name has passed the
\* threshold without any recovery
C13_Witness ==
  /\ failureThreshold = 2
  /\ recoveries["apiServer"] = 1
  /\ restartCommands["apiServer"] = 1
  /\ failureCount["apiServer"] = 0
  /\ failureCount["thumbnails"] = 3

\* C14: once a restart has been issued for a service (counter reset, cooldown
\* armed), the failures recorded for it while the cooldown is active, of which
\* those of the same wallClock period are part, trigger no other recovery.
C14_NoRecoveryDuringCooldown ==
  [][\A n \in Names :
       recoveries'[n] # recoveries[n] =>
         lastRecoveryAt[n] = Never \/ lastRecoveryAt[n] < wallClock]_vars

-----------------------------------------------------------------------------
\* Claims about the Watchdog

\* Whether the step is a call of handleServiceFailure
FailureHandled == lastCheck'.kind # "none" /\ ~lastCheck'.isRunning

\* The restart attempts the step makes: the start commands it hands to exec
StartsIssued == {c \in commands' \ commands : c[1] = "start"}

\* C15: when the incremented failure count is >= MAX_FAILURES and
\* now - lastRecoveryAttempt < RECOVERY_TIME, handleServiceFailure attempts no
\* restart and leaves lastRecoveryAttempt as it is; at the first absent
\* observation at which the cooldown has elapsed exactly one restart is
\* attempted and the count is reset to 0.
C15_InhibitedWithinCooldown ==
  [][FailureHandled =>
       LET count == failures + 1
           age == lastCheck'.age
       IN /\ lastCheck'.before = failures
          /\ age \in {sinceLastAttempt}
                       \cup {Later(sinceLastAttempt, d) : d \in Intervals}
          /\ (count >= MAX_FAILURES /\ age < RECOVERY_TIME) =>
               /\ lastCheck'.decision = "skip"
               /\ commands' = commands
               /\ sinceLastAttempt' = age
               /\ Len(recentRestarts') <= Len(recentRestarts)
               /\ failures' = count
          /\ (count >= MAX_FAILURES /\ age >= RECOVERY_TIME) =>
               /\ lastCheck'.decision = "restart"
               /\ Cardinality(StartsIssued) = 1
               /\ sinceLastAttempt' = 0
               /\ Head(recentRestarts') = 0
               /\ failures' = 0]_vars

\* C15 witness: after absent observations that were inhibited, the cooldown
\* has elapsed and the restart has just been made, the count back at 0
C15_Witness ==
  /\ lastCheck.kind = "check"
  /\ lastCheck.decision = "restart"
  /\ lastCheck.before > MAX_FAILURES
  /\ lastCheck.age = RECOVERY_TIME
  /\ failures = 0
  /\ sinceLastAttempt = 0

\* C16: the failure counter is never stuck for good: if the service stays
\* absent forever while the watchdog runs and its health-check timer keeps
\* firing, restart attempts are made again and again.
\* An absent observation is inhibited only while the cooldown runs, and every
\* inhibited one finds the cooldown CHECK_INTERVAL or more closer to its end.
C16_RestartsInfinitelyOften ==
  /\ [][(FailureHandled /\ lastCheck'.decision = "skip") =>
         /\ lastCheck'.age < RECOVERY_TIME
         /\ lastCheck'.kind = "check" =>
              sinceLastAttempt' >= sinceLastAttempt + CHECK_INTERVAL]_vars
  /\ [](failures <= MAX_FAILURES + RECOVERY_TIME \div CHECK_INTERVAL)
  /\ ([]alive /\ []~lastCheck.isRunning) =>
       []<>(lastCheck.decision = "restart")

\* C16 witness: the inhibited state, many absent observations after the count
\* reached MAX_FAILURES, one health check before the cooldown has elapsed
C16_Witness ==
  /\ alive
  /\ lastCheck.decision = "skip"
  /\ failures > MAX_FAILURES + 3
  /\ sinceLastAttempt + CHECK_INTERVAL >= RECOVERY_TIME

\* C17: whatever the health checks observe, consecutive absences as well as
\* absences alternating with running observations, the restart attempts made
\* for the service within any window shorter than RECOVERY_TIME number at most
\* MAX_FAILURES.
C17_AtMostMaxFailuresPerWindow ==
  Len(recentRestarts) <= MAX_FAILURES

\* C18: after a health check that observes the service running its failure
\* count is 0, whatever it was; an absent observation adds exactly one to the
\* count before the restart decision is taken.
C18_CountFollowsObservation ==
  [][lastCheck'.kind = "check" =>
       /\ lastCheck'.before = failures
       /\ IF lastCheck'.isRunning
            THEN /\ failures' = 0
                 /\ lastCheck'.decision = "none"
                 /\ commands' = commands
            ELSE /\ lastCheck'.decision =
                      IF failures + 1 >= MAX_FAILURES
                           /\ lastCheck'.age < RECOVERY_TIME
                        THEN "skip" ELSE "restart"
                 /\ failures' =
                      IF lastCheck'.decision = "skip" THEN failures + 1
                      ELSE IF failures + 1 >= MAX_FAILURES THEN 0
                      ELSE failures + 1]_vars

\* C18 witness: a health check has just seen the service running and has
\* taken the count from MAX_FAILURES or more to 0
C18_Witness ==
  /\ lastCheck.kind = "check"
  /\ lastCheck.isRunning
  /\ lastCheck.before >= MAX_FAILURES
  /\ failures = 0

\* Whether the command c of a restart attempt runs in this step
Runs(c) == c \in commands /\ c \notin commands'

\* C19: in every restart attempt the force-termination of the stale processes
\* is over before the new process is started, so that the terminate step never
\* kills the process the same attempt launched.
C19_KillCompletesBeforeStart ==
  [][\A a \in AttemptIds :
       /\ Runs(<<"start", a>>) => <<"taskkill", a>> \notin commands
       /\ Runs(<<"taskkill", a>>) => a \notin procs]_vars

\* C20: every restart attempt for a service of importance 'critical' takes a
\* backup snapshot of the critical files before it issues the start command,
\* and still issues it when the backup fails; for a service that is not
\* critical no snapshot is taken.
C20_BackupBeforeStart ==
  [][lastCheck'.decision = "restart" =>
       /\ Cardinality(StartsIssued) = 1
       /\ IF importance = "critical"
            THEN lastCheck'.steps =
                   <<IF lastCheck'.backupOk THEN "backup" ELSE "backupFailed",
                     "taskkill", "start">>
            ELSE lastCheck'.steps = <<"taskkill", "start">>]_vars

\* C20 witness: the restart of a critical service whose backup failed, its
\* start command handed to exec
C20_Witness ==
  /\ importance = "critical"
  /\ lastCheck.decision = "restart"
  /\ ~lastCheck.backupOk
  /\ lastCheck.steps = <<"backupFailed", "taskkill", "start">>
  /\ <<"start", 1>> \in commands

-----------------------------------------------------------------------------
\* Claims about the memory guard of SystemProtection

\* C21: a checkMemoryUsage call acts by the band its sample is in: a usage
\* not above memoryThreshold leads to no garbage collection and no restart; a
\* usage above memoryThreshold and not above memoryLimit leads to one
\* collectGarbage call (which collects where global.gc is defined) and no
\* restart; a fresh sample is taken, the entry of the escalation, exactly when
\* the usage is above memoryLimit
C21_ActsByBand ==
  LET c == lastMemoryCheck
  IN  c.kind = "check" =>
        /\ c.usage <= memoryThreshold =>
             c.gcCalls = 0 /\ c.gcRuns = 0 /\ c.restarts = 0
        /\ (c.usage > memoryThreshold /\ c.usage <= memoryLimit) =>
             /\ c.gcCalls = 1
             /\ c.gcRuns = (IF exposeGc THEN 1 ELSE 0)
             /\ c.restarts = 0
        /\ c.fresh # NoSample <=> c.usage > memoryLimit

\* A check at 85 percent collected once and restarted nothing
C21_Witness ==
  /\ lastMemoryCheck.kind = "check"
  /\ lastMemoryCheck.usage = 85
  /\ lastMemoryCheck.gcRuns = 1
  /\ lastMemoryCheck.restarts = 0

\* C22: a checkMemoryUsage call issues at most one restart; when its first
\* sample is above memoryLimit it calls collectGarbage once, takes a fresh
\* sample, and issues the restart (with its backup) exactly when the fresh
\* sample is still above memoryLimit
C22_RestartOnFreshSample ==
  LET c == lastMemoryCheck
  IN  c.kind = "check" =>
        /\ c.restarts <= 1
        /\ c.restarts = 1 => c.usage > memoryLimit /\ lastBackup.kind = "backup"
        /\ c.usage > memoryLimit =>
             /\ c.gcCalls = 1
             /\ c.fresh \in Usages
             /\ c.restarts = 1 <=> c.fresh > memoryLimit

\* A check saw 95 percent, then 92 percent after the collection, and restarted
C22_Witness ==
  /\ lastMemoryCheck.kind = "check"
  /\ lastMemoryCheck.usage = 95
  /\ lastMemoryCheck.fresh = 92
  /\ lastMemoryCheck.restarts = 1

-----------------------------------------------------------------------------
\* Claims about the integrity guard of SystemProtection

\* The backup folders that hold a copy of a file, and the newest of them
HoldersOf(f) == {b \in backups : b.copies[f] # Missing}

NewestHolding(f) ==
  CHOOSE b \in HoldersOf(f) : \A x \in HoldersOf(f) : x.time <= b.time

\* The newest of all backup folders
Newest == CHOOSE b \in backups : \A x \in backups : x.time <= b.time

\* C23: after a checkFileIntegrity call in which no copy threw, every file
\* the call found missing or changed, and of which some backup folder holds
\* a copy, has the content of the newest backup folder that holds it
C23_RestoredFromNewestHolding ==
  LET c == lastIntegrityCheck
  IN  (c.kind = "check" /\ c.failed = {}) =>
        \A i \in 1..Len(c.corrupted) :
          LET f == c.corrupted[i]
          IN  HoldersOf(f) # {} => files[f] = NewestHolding(f).copies[f]

\* C24: a file that was changed after a backup that holds its good content
\* has that content again after the next checkFileIntegrity call in which no
\* copy threw, whatever ran between the change and the check
C24_GoodContentBack ==
  [][(lastIntegrityCheck'.kind = "check" /\ lastIntegrityCheck'.failed = {}) =>
       \A f \in CriticalFiles :
         goodContent[f] # NoContent => files'[f] = goodContent[f]]_vars

\* C25: a checkFileIntegrity call that directly follows another one, with no
\* change of a file, of a backup or of what other programs hold open between
\* them, restores no file
C25_SecondCheckRestoresNothing ==
  (lastIntegrityCheck.kind = "check" /\ lastIntegrityCheck.repeated) =>
    lastIntegrityCheck.restored = {}

\* A check restored a file and the check right after it restored none
C25_Witness ==
  /\ lastIntegrityCheck.kind = "check"
  /\ lastIntegrityCheck.repeated
  /\ lastIntegrityCheck.previous # {}
  /\ lastIntegrityCheck.restored = {}

\* The hash of a file that is there differs from its baseline
HashDiffers(f) ==
  /\ files[f] # Missing
  /\ criticalFileHashes[f] # NoHash
  /\ calculateFileHash(files[f]) # criticalFileHashes[f]

\* C26: when the hash of exactly one critical file differs from its baseline
\* and the other files are in order, checkFileIntegrity writes at most that
\* file, with its copy in the newest backup folder, and leaves the other
\* critical files, the baseline hashes and the backup folders as they are
C26_OnlyThatFileWritten ==
  [][lastIntegrityCheck'.kind = "check" =>
       \A f \in CriticalFiles :
         (HashDiffers(f) /\
          \A g \in CriticalFiles \ {f} : ~HashDiffers(g) /\ files[g] # Missing) =>
           /\ lastIntegrityCheck'.restored \subseteq {f}
           /\ \A g \in CriticalFiles \ {f} : files'[g] = files[g]
           /\ files'[f] = IF f \in lastIntegrityCheck'.restored
                          THEN Newest.copies[f] ELSE files[f]
           /\ (backups # {} /\ Newest.copies[f] # Missing /\ f \notin heldOpen) =>
                f \in lastIntegrityCheck'.restored
           /\ criticalFileHashes' = criticalFileHashes
           /\ backups' = backups]_vars

\* A check found one changed file, all files in place, and restored that file
C26_Witness ==
  /\ lastIntegrityCheck.kind = "check"
  /\ Len(lastIntegrityCheck.corrupted) = 1
  /\ lastIntegrityCheck.missing = {}
  /\ lastIntegrityCheck.restored = {lastIntegrityCheck.corrupted[1]}
  /\ \A f \in CriticalFiles : files[f] # Missing

\* The files a check reported as corrupted
Reported == {lastIntegrityCheck.corrupted[i] :
               i \in 1..Len(lastIntegrityCheck.corrupted)}

\* C27 as claimed: a critical file with no baseline hash is not reported as
\* corrupted by checkFileIntegrity, whether the file is there or not
C27_NoBaselineNeverReported ==
  lastIntegrityCheck.kind = "check" =>
    \A f \in CriticalFiles : criticalFileHashes[f] = NoHash => f \notin Reported

\* C27: a critical file with no baseline hash is reported as corrupted, and
\* its restoration attempted, exactly when the file is missing; one that is
\* there is skipped: not reported, not written
C27_NoBaselineReportedIffMissing ==
  lastIntegrityCheck.kind = "check" =>
    \A f \in CriticalFiles :
      criticalFileHashes[f] = NoHash =>
        /\ f \in Reported <=> f \in lastIntegrityCheck.missing
        /\ f \notin lastIntegrityCheck.missing =>
             f \notin lastIntegrityCheck.restored \cup lastIntegrityCheck.failed

\* A check passed over a file that is there and has no baseline hash
C27_Witness ==
  /\ lastIntegrityCheck.kind = "check"
  /\ \E f \in CriticalFiles :
       /\ criticalFileHashes[f] = NoHash
       /\ files[f] # Missing
       /\ f \notin Reported

\* C28: after a checkFileIntegrity call, every file the call reported, that
\* the newest backup folder holds and that no program holds open, is restored,
\* whatever happened to the restoration of the other files
C28_EachFileOnItsOwn ==
  lastIntegrityCheck.kind = "check" =>
    \A f \in Reported :
      (backups # {} /\ Newest.copies[f] # Missing /\ f \notin heldOpen) =>
        f \in lastIntegrityCheck.restored

-----------------------------------------------------------------------------
\* Claim about the order of settlement across batches of the operation queue

\* The items whose callbacks were started
DispatchedIds == {dispatched[j] : j \in 1..Len(dispatched)}

\* An item of an earlier batch has not settled yet, and an item of the batch
\* that is running has
EarlierBatchOutlasted ==
  \E hi \in DispatchedIds \ SeqIds(batch) : \E lo \in SeqIds(batch) :
    settleCount[hi] = 0 /\ settleCount[lo] >= 1

\* C30 as claimed: the queue gets to a state where an item of an earlier
\* batch settles after an item of a later batch
C30_EarlierBatchSettlesLater == <>EarlierBatchOutlasted

\* C30: a batch is formed only when every item of the batches before it has
\* settled and its callback has ended, so an item of an earlier batch never
\* settles after an item of a later batch; only inside one batch is the order
\* of settlement free
C30_BatchesDoNotOverlap ==
  /\ ~EarlierBatchOutlasted
  /\ \A i \in DispatchedIds \ SeqIds(batch) :
       settleCount[i] = 1 /\ worker[i] = "done"

\* In the second batch the item of low priority, dispatched last, has settled
\* and the item of high priority has not
C30_Witness ==
  /\ batchNo >= 2
  /\ Len(batch) >= 2
  /\ EffPriority(batch[1]) > EffPriority(batch[2])
  /\ settleCount[batch[1].id] = 0
  /\ settleCount[batch[2].id] = 1

-----------------------------------------------------------------------------
\* Further claims about the operation queue

\* C31: the queue calls each scheduled operation at most once: an item whose
\* callback was started is in the queue no more, is dispatched once, and is
\* not called again after its operation failed
C31_InvokedAtMostOnce ==
  /\ \A i \in Ids : invoked[i] <= 1
  /\ \A i \in DispatchedIds : i \notin SeqIds(queue)
  /\ \A j, k \in 1..Len(dispatched) : dispatched[j] = dispatched[k] => j = k
  /\ \A i \in Ids :
       (future[i] # Pending /\ future[i].state = "rejected") =>
         worker[i] = "done" /\ invoked[i] = 1

\* An operation failed, and the queue went on to the next batch without it
C31_Witness ==
  /\ batchNo >= 2
  /\ \E i \in Ids :
       /\ future[i] # Pending
       /\ future[i].state = "rejected"
       /\ invoked[i] = 1
       /\ i \notin SeqIds(batch)

\* C32: no callback is started while an item of the running batch has not
\* settled and ended its callback, whatever is submitted meanwhile: the items
\* that wait in the queue stay there, so an operation that never settles
\* keeps its slot and stops every later dispatch
C32_NoDispatchBeforeBatchSettled ==
  [][(\E i \in SeqIds(batch) : worker[i] # "done") =>
       /\ dispatched' = dispatched
       /\ batch' = batch
       /\ batchNo' = batchNo
       /\ SeqIds(queue) \subseteq SeqIds(queue')
       /\ activeOperations' >= 1
            \/ \A i \in SeqIds(batch) : worker'[i] = "done"]_vars

\* An operation has not settled while two items wait in the queue
C32_Witness ==
  /\ \E i \in SeqIds(batch) : worker[i] = "op"
  /\ Len(queue) >= 2
  /\ activeOperations >= 1

\* C33: the metrics account for every submission once: the scheduleOperation
\* calls made so far are the queued, the active, the completed and the failed
\* operations, and the two counters never go down
C33_MetricsAccountForAll ==
  /\ [](submitted = Len(queue) + activeOperations
                      + operationsCompleted + operationsFailed)
  /\ [][/\ operationsCompleted' >= operationsCompleted
        /\ operationsFailed' >= operationsFailed]_vars

\* Operations are queued, active, completed and failed at the same time
C33_Witness ==
  /\ Len(queue) >= 1
  /\ activeOperations >= 1
  /\ operationsCompleted + operationsFailed >= 1

\* C34: with maxConcurrentOperations >= 1, a scheduleOperation call on an idle
\* queue starts the callback of its operation in the same step, in a batch of
\* its own; a call made while the loop runs only queues its operation,
\* whatever its priority, and while the operation of a batch of one has not
\* settled nothing else is dispatched
C34_IdleSubmissionGoesAlone ==
  /\ [][(submitted' # submitted /\ ~isProcessing /\ maxConcurrentOperations >= 1) =>
          /\ queue = <<>>
          /\ queue' = <<>>
          /\ Len(batch') = 1
          /\ batch'[1].id = submitted'
          /\ dispatched' = Append(dispatched, submitted')
          /\ worker'[submitted'] = "fs"]_vars
  /\ [][(submitted' # submitted /\ isProcessing) =>
          /\ dispatched' = dispatched
          /\ Len(queue') = Len(queue) + 1
          /\ queue'[Len(queue')].id = submitted']_vars
  /\ [][(Len(batch) = 1 /\ worker[batch[1].id] # "done") =>
          dispatched' = dispatched]_vars

\* The first operation runs alone while one of higher priority, submitted
\* after it, waits
C34_Witness ==
  /\ batchNo = 1
  /\ Len(batch) = 1
  /\ worker[batch[1].id] \in {"fs", "op"}
  /\ queue # <<>>
  /\ EffPriority(queue[1]) > EffPriority(batch[1])

\* C34 as claimed: every scheduleOperation call on an idle queue starts the
\* callback of its operation in the same step, in a batch of its own
C34_IdleSubmissionDispatchedAtOnce ==
  [][(submitted' # submitted /\ ~isProcessing) =>
       /\ Len(batch') = 1
       /\ batch'[1].id = submitted'
       /\ dispatched' = Append(dispatched, submitted')
       /\ worker'[submitted'] = "fs"]_vars

-----------------------------------------------------------------------------
\* Further claim about ErrorRecovery

\* The step is a failed attempt of the withRetry call that is followed
AttemptFails ==
  /\ retry.pc = "operation"
  /\ retry' # retry
  /\ retryReturned'.kind # "result"

\* C35: the failure count of a name changes only by +1, or to 0 together with
\* a recovery of that name; every failed attempt changes the count of its
\* name in one of the two ways, and a step in which the operation succeeds, or
\* a delay ends, leaves all counts and recoveries as they are, so the count of
\* a critical name is the number of failures recorded since the start or its
\* last recovery, the successes in between not counting
C35_CountChangesOnlyByFailure ==
  [][/\ \A n \in Names :
          failureCount'[n] # failureCount[n] =>
            \/ /\ failureCount'[n] = failureCount[n] + 1
               /\ recoveries'[n] = recoveries[n]
            \/ /\ failureCount'[n] = 0
               /\ recoveries'[n] = recoveries[n] + 1
               /\ failureCount[n] + 1 = failureThreshold
               /\ n \in criticalServices
     /\ AttemptFails => FailureRecorded(retry.name)
     /\ (retryReturned'.kind = "result" \/ (retry.pc = "delay" /\ retry' # retry)) =>
          /\ failureCount' = failureCount
          /\ recoveries' = recoveries
          /\ restartCommands' = restartCommands]_vars

\* A withRetry call for the critical name succeeded after a failed attempt of
\* its own, and the failure stays counted
C35_Witness ==
  /\ retryReturned.kind = "result"
  /\ retryReturned.name = "apiServer"
  /\ retryReturned.failed >= 1
  /\ failureCount["apiServer"] >= 1

\* ---------------------------------------------------------------------------
\* Further claim about ApiService

\* C36: cache entries of distinct endpoint keys do not interfere: a result
\* that fetchWithRetry builds from the cache for endpoint e (cache-first or
\* fallback) carries the payload of the last successful fetch for e itself,
\* never a payload fetched for another key, keys that differ only in "/"
\* versus "_" included.
C36_CachedPayloadIsOwn ==
  returned.fromCache =>
    /\ lastSuccess[returned.endpoint] # Null
    /\ returned.data = lastSuccess[returned.endpoint]

\* ---------------------------------------------------------------------------
\* The restarts of one service, taken together
\*
\* The service 'apiServer' is restarted from three places that share no state:
\* Watchdog.handleServiceFailure (start command), SystemProtection
\* .restartService (restart_api_server.bat, after an excessive memory sample)
\* and ErrorRecovery.initiateRecovery (restart_api_server.bat). Their steps
\* interleave freely.
NextRestarts ==
  \/ \E b \in BOOLEAN :
       HealthCheck(CHECK_INTERVAL, FALSE, b) /\ UNCHANGED exceptWatchdog
  \/ \E a \in AttemptIds : RunKill(a) /\ UNCHANGED exceptWatchdog
  \/ \E a \in AttemptIds : \E ok \in BOOLEAN :
       RunStart(a, ok) /\ UNCHANGED exceptWatchdog
  \/ \E fail \in BackupFailures : Initialize(fail) /\ UNCHANGED exceptProtection
  \/ \E usage \in Usages : \E fresh \in Usages \cup {NoSample} :
       \E fail \in BackupFailures :
         CheckMemoryUsage(usage, fresh, fail) /\ UNCHANGED exceptProtection
  \/ \E x \in BOOLEAN :
       RecordFailure("apiServer", x) /\ UNCHANGED exceptRecovery

\* Every component constructed and idle, the service being critical
InitForRestarts ==
  /\ InitQueue /\ maxConcurrentOperations = 1 /\ batchSize = 1
  /\ InitFetch
  /\ RecoveryAtRest
  /\ WatchdogAtRest
  /\ ProtectionAtRest
  /\ InitMonitor

SpecRestarts == InitForRestarts /\ [][NextRestarts]_vars

\* A start command of the Watchdog is with the operating system
StartInFlight == \E a \in AttemptIds : <<"start", a>> \in commands

\* The step hands restart_api_server.bat to exec: restartService after an
\* excessive memory sample, or initiateRecovery('apiServer')
GuardRestarts ==
  /\ protectionVars' # protectionVars
  /\ lastMemoryCheck'.kind = "check"
  /\ lastMemoryCheck'.restarts > 0
RecoveryRestarts ==
  restartCommands'["apiServer"] > restartCommands["apiServer"]

\* C37: at no time are two restart commands for the same service in flight
\* at once, the restarts of the Watchdog, of the memory guard and of
\* ErrorRecovery taken together: no restart script is handed to exec while a
\* start command of the Watchdog for the service is still in flight.
C37_OneRestartInFlight ==
  [][(GuardRestarts \/ RecoveryRestarts) => ~StartInFlight]_vars

\* ---------------------------------------------------------------------------
\* Claim about NetworkMonitor

\* The 'online' / 'offline' event the step emits, "none" when it emits none
EmittedTransition ==
  IF pending' # pending /\ emitted' # <<>> /\ emitted'[1] # "statusUpdate"
    THEN emitted'[1]
    ELSE "none"

\* C38: NetworkMonitor emits 'online' and 'offline' strictly alternately:
\* an 'online' or 'offline' event is never followed by the same event without
\* the other one in between, whatever the interleaving of the connectivity
\* checks, a check begun by the interval timer while an earlier one still
\* awaits its result included.
C38_EventsAlternate ==
  [][EmittedTransition # "none" => EmittedTransition # lastEmitted]_vars

====
